---- MODULE Spec2Model ----
(***************************************************************************)
(* kytos/of_core: the raw-in framer, the hello negotiation and handshake   *)
(* state machine of one connection, and the multipart flow-stats           *)
(* reassembly of its switch (src/main.py).                                 *)
(***************************************************************************)
EXTENDS Integers, Sequences, FiniteSets, TLC

\* ------------------------------------------------------------------ bounds
MaxRaw == 3
MaxFrames == 5
MaxBatch == 2
MaxReq == 2
MaxFrag == 3
MaxActions == 2
MaxStream == 2
MaxPorts == 2
MaxSubclasses == 3

\* --------------------------------------------------------------- constants
None == -1
OPENFLOW_VERSIONS == {1, 4}
PYOF_VERSION_LIBS == {1, 4}
SEND_SET_CONFIG == TRUE
SEND_ECHO_REQUESTS == TRUE
SEND_FEATURES_REQUEST_ON_ECHO == FALSE
OFPT_HELLO == 0
OFPT_ECHO_REQUEST == 2
OFPT_FEATURES_REPLY == 6
OFPT_UNKNOWN == 99
OFPHET_VERSIONBITMAP == 1
HEADER_SIZE == 8
Xids == {1, 2}
MultipartTypes == {"OFPMP_DESC", "OFPMP_FLOW", "OFPMP_TABLE", "OFPMP_PORT_DESC"}
Dpid == "dpid"

\* ----------------------------------------------------------------- helpers
SetMax(S) == CHOOSE x \in S : \A y \in S : y <= x
IntMin(a, b) == IF a <= b THEN a ELSE b

RECURSIVE join(_)
join(pkts) == IF pkts = <<>> THEN <<>> ELSE Head(pkts) \o join(Tail(pkts))

RECURSIVE Pow2(_)
Pow2(n) == IF n = 0 THEN 1 ELSE 2 * Pow2(n - 1)

\* big-endian integer of a byte string
RECURSIVE unpack_int(_)
unpack_int(bytes) ==
    IF bytes = <<>> THEN 0
    ELSE unpack_int(SubSeq(bytes, 1, Len(bytes) - 1)) * 256 + bytes[Len(bytes)]

\* ------------------------------------------------------------ frame slicer
\* of_slicer(data): complete frames, in order, and the bytes left over
RECURSIVE of_slicer(_)
of_slicer(remaining_data) ==
    IF Len(remaining_data) > 3
    THEN LET length_field == unpack_int(SubSeq(remaining_data, 3, 4))
         IN  IF length_field >= HEADER_SIZE /\ Len(remaining_data) >= length_field
             THEN LET rest == of_slicer(SubSeq(remaining_data, length_field + 1,
                                               Len(remaining_data)))
                  IN  [pkts |-> <<SubSeq(remaining_data, 1, length_field)>> \o rest.pkts,
                       rem |-> rest.rem]
             ELSE [pkts |-> <<>>, rem |-> remaining_data]
    ELSE [pkts |-> <<>>, rem |-> remaining_data]

\* ------------------------------------------------------------------ header
Header(version, type, length, xid) ==
    <<version, type, length \div 256, length % 256, 0, 0, 0, xid>>

unpack_header(packet) ==
    [version |-> packet[1], message_type |-> packet[2],
     length |-> unpack_int(SubSeq(packet, 3, 4)),
     xid |-> unpack_int(SubSeq(packet, 5, 8))]

\* versions named by the bitmap of a hello element
RECURSIVE bitmap_bits(_, _)
bitmap_bits(bitmap, i) ==
    IF bitmap = 0 THEN {}
    ELSE (IF bitmap % 2 = 1 THEN {i} ELSE {}) \cup bitmap_bits(bitmap \div 2, i + 1)

bitmap_versions(bitmap) == bitmap_bits(bitmap, 0)

\* GenericHello(packet): version-agnostic parse of a hello; ok is FALSE where
\* the constructor raises UnpackException
GenericHello(packet) ==
    LET header == unpack_header(packet)
        elem == SubSeq(packet, HEADER_SIZE + 1, Len(packet))
        versions == IF Len(elem) >= 8 /\ unpack_int(SubSeq(elem, 1, 2)) = OFPHET_VERSIONBITMAP
                    THEN bitmap_versions(unpack_int(SubSeq(elem, 5, 8)))
                    ELSE {}
    IN  [ok |-> header.message_type = OFPT_HELLO, header |-> header,
         versions |-> versions]

\* connection.protocol.unpack(packet) of the codec library: the typed message,
\* ok is FALSE where it raises UnpackException
unpack(packet) ==
    LET header == unpack_header(packet)
    IN  [ok |-> header.version \in PYOF_VERSION_LIBS
                /\ header.message_type \in {OFPT_HELLO, OFPT_ECHO_REQUEST,
                                            OFPT_FEATURES_REPLY},
         header |-> header,
         data |-> SubSeq(packet, HEADER_SIZE + 1, Len(packet))]

message_type_name(type) ==
    CASE type = OFPT_HELLO -> "ofpt_hello"
      [] type = OFPT_ECHO_REQUEST -> "ofpt_echo_request"
      [] type = OFPT_FEATURES_REPLY -> "ofpt_features_reply"
      [] OTHER -> "unknown"

\* ------------------------------------------------------ version negotiation
\* the lowest common version instead of the highest
get_version_from_bitmask_lowest(message_versions) ==
    LET common == {version \in message_versions : version \in OPENFLOW_VERSIONS}
    IN  IF common = {} THEN None ELSE CHOOSE x \in common : \A y \in common : x <= y

get_version_from_bitmask(message_versions) ==
    LET common == {version \in message_versions : version \in OPENFLOW_VERSIONS}
    IN  IF common = {} THEN None ELSE SetMax(common)

\* the peer's version taken as it is, not capped by the highest supported one
get_version_from_header_no_min(message_version) ==
    IF message_version \in OPENFLOW_VERSIONS THEN message_version ELSE None

get_version_from_header(message_version) ==
    LET version == IntMin(message_version, SetMax(OPENFLOW_VERSIONS))
    IN  IF version \in OPENFLOW_VERSIONS THEN version ELSE None

negotiated_version(message) ==
    IF message.versions # {}
    THEN get_version_from_bitmask(message.versions)
    ELSE get_version_from_header(message.header.version)

\* -------------------------------------------------------------------- flows
\* an exception instead of a return value
Raised(exception) == [raised |-> exception]
has_raised(result) == "raised" \in DOMAIN result

\* MatchBase.__init__ (two of its fields)
MatchBase(in_port, dl_vlan) == [in_port |-> in_port, dl_vlan |-> dl_vlan]

\* the fields that are 0 left out with those that are None
MatchBase_as_dict_truthy(match) ==
    [k \in {f \in DOMAIN match : match[f] # None /\ match[f] # 0} |-> match[k]]

\* MatchBase.as_dict
MatchBase_as_dict(match) ==
    [k \in {f \in DOMAIN match : match[f] # None} |-> match[k]]

\* MatchBase.from_dict
MatchBase_from_dict(match_dict) ==
    LET match == MatchBase(None, None)
    IN [key \in DOMAIN match |->
            IF key \in DOMAIN match_dict THEN match_dict[key] ELSE match[key]]

\* FlowStats.__init__
FlowStats ==
    [byte_count |-> None, duration_sec |-> None, duration_nsec |-> None,
     packet_count |-> None]

\* Stats.as_dict
Stats_as_dict(stats) ==
    [attribute \in {a \in DOMAIN stats : stats[a] # None} |-> stats[attribute]]

\* Stats.from_dict
Stats_from_dict(stats_dict) ==
    LET stats == FlowStats
    IN [attr_name \in DOMAIN stats |->
            IF attr_name \in DOMAIN stats_dict THEN stats_dict[attr_name]
            ELSE stats[attr_name]]

ActionOutput(port) == [port |-> port, action_type |-> "output"]
ActionSetVlan(vlan_id) == [vlan_id |-> vlan_id, action_type |-> "set_vlan"]
ActionPushVlan(tag_type) == [action_type |-> "push_vlan", tag_type |-> tag_type]
ActionPopVlan == [action_type |-> "pop_vlan"]

\* ActionBase.as_dict: vars(self)
ActionBase_as_dict(action) == action

\* Action._action_class of each version, by action_type
action_class(of_version) ==
    IF of_version = 4 THEN {"output", "set_vlan", "push_vlan", "pop_vlan"}
    ELSE {"output", "set_vlan"}

\* ActionBase.from_dict: cls(None), then the attributes of the dictionary;
\* ActionPopVlan.__init__ takes no argument
ActionBase_from_dict(cls, action_dict) ==
    IF cls = "pop_vlan" THEN Raised("TypeError")
    ELSE LET action == CASE cls = "output" -> ActionOutput(None)
                         [] cls = "set_vlan" -> ActionSetVlan(None)
                         [] cls = "push_vlan" -> ActionPushVlan(None)
         IN [attr_name \in DOMAIN action |->
                IF attr_name \in DOMAIN action_dict THEN action_dict[attr_name]
                ELSE action[attr_name]]

\* ActionFactoryBase.from_dict
ActionFactoryBase_from_dict(of_version, action_dict) ==
    IF "action_type" \notin DOMAIN action_dict
       \/ action_dict.action_type \notin action_class(of_version)
    THEN Raised("KeyError")
    ELSE ActionBase_from_dict(action_dict.action_type, action_dict)

\* FlowBase.__init__, and Flow.__init__ of v0x04 with its cookie_mask
Flow(of_version, switch, table_id, match, priority, idle_timeout, hard_timeout, cookie, actions, stats, cookie_mask) ==
    [of_version |-> of_version, switch |-> switch, table_id |-> table_id,
     match |-> match, priority |-> priority, idle_timeout |-> idle_timeout,
     hard_timeout |-> hard_timeout, cookie |-> cookie, actions |-> actions,
     stats |-> stats]
    @@ (IF of_version = 4 THEN [cookie_mask |-> cookie_mask] ELSE <<>>)

\* cls(switch): the defaults of the constructors
FlowDefault(of_version, switch) ==
    Flow(of_version, switch, 0, MatchBase(None, None), 32768, 0, 0, 0, <<>>,
         FlowStats, 0)

\* the keys of a flow dictionary in insertion order and in sorted order
InsertionKeys ==
    <<"switch", "table_id", "match", "priority", "idle_timeout", "hard_timeout",
      "cookie", "actions", "id", "stats">>
SortedKeys ==
    <<"actions", "cookie", "hard_timeout", "id", "idle_timeout", "match",
      "priority", "stats", "switch", "table_id">>

\* json.dumps of a flow dictionary: its items, in sorted key order if asked
json_dumps(obj, sort_keys) ==
    LET order == IF sort_keys THEN SortedKeys ELSE InsertionKeys
        keys == SelectSeq(order, LAMBDA k : k \in DOMAIN obj)
    IN [i \in 1..Len(keys) |-> <<keys[i], obj[keys[i]]>>]

\* md5().hexdigest(), taken as collision free
md5(flow_str) == [md5 |-> flow_str]

RECURSIVE id(_)

\* priority left out of the dictionary
as_dict_no_priority(flow, include_id) ==
    LET flow_dict ==
            [switch |-> flow.switch.id,
             table_id |-> flow.table_id,
             match |-> MatchBase_as_dict(flow.match),
             idle_timeout |-> flow.idle_timeout,
             hard_timeout |-> flow.hard_timeout,
             cookie |-> flow.cookie,
             actions |-> [i \in 1..Len(flow.actions) |->
                              ActionBase_as_dict(flow.actions[i])]]
    IN IF include_id
       THEN flow_dict @@ [id |-> id(flow), stats |-> Stats_as_dict(flow.stats)]
       ELSE flow_dict

\* FlowBase.as_dict
as_dict(flow, include_id) ==
    LET flow_dict ==
            [switch |-> flow.switch.id,
             table_id |-> flow.table_id,
             match |-> MatchBase_as_dict(flow.match),
             priority |-> flow.priority,
             idle_timeout |-> flow.idle_timeout,
             hard_timeout |-> flow.hard_timeout,
             cookie |-> flow.cookie,
             actions |-> [i \in 1..Len(flow.actions) |->
                              ActionBase_as_dict(flow.actions[i])]]
    IN IF include_id
       THEN flow_dict @@ [id |-> id(flow), stats |-> Stats_as_dict(flow.stats)]
       ELSE flow_dict

\* FlowBase.as_json
as_json(flow, sort_keys, include_id) ==
    json_dumps(as_dict(flow, include_id), sort_keys)

\* FlowBase.id
id(flow) == md5(as_json(flow, TRUE, FALSE))

\* FlowBase.__eq__
FlowBase_eq(self, other) ==
    IF other.of_version # self.of_version THEN "ValueError"
    ELSE IF as_dict(self, FALSE) = as_dict(other, FALSE) THEN "True" ELSE "False"

\* FlowBase.from_dict
from_dict(of_version, flow_dict, switch) ==
    LET flow == FlowDefault(of_version, switch)
        attrs == DOMAIN flow \ {"of_version"}
        found == [attr_name \in DOMAIN flow |->
                     IF attr_name \in attrs /\ attr_name \in DOMAIN flow_dict
                     THEN flow_dict[attr_name] ELSE flow[attr_name]]
        with_switch == [found EXCEPT !.switch = switch]
        with_stats == IF "stats" \in DOMAIN flow_dict
                      THEN [with_switch EXCEPT !.stats = Stats_from_dict(flow_dict.stats)]
                      ELSE with_switch
        with_match == IF "match" \in DOMAIN flow_dict
                      THEN [with_stats EXCEPT !.match = MatchBase_from_dict(flow_dict.match)]
                      ELSE with_stats
        actions == IF "actions" \in DOMAIN flow_dict
                   THEN [i \in 1..Len(flow_dict.actions) |->
                            ActionFactoryBase_from_dict(of_version, flow_dict.actions[i])]
                   ELSE <<>>
        failed == {i \in 1..Len(actions) : has_raised(actions[i])}
    IN IF failed # {}
       THEN actions[CHOOSE i \in failed : \A j \in failed : i <= j]
       ELSE IF "actions" \in DOMAIN flow_dict
       THEN [with_match EXCEPT !.actions = actions]
       ELSE with_match

\* ------------------------------------------------------------- match fields
OFPVID_PRESENT == 4096

\* the Python value of a match field: an int, a string, a string 'value/mask'
IntValue(n) == [int |-> n]
MaskedInt(value, mask) == [digits |-> value, mask_digits |-> mask]
Text(value) == [str |-> value]
MaskedText(value, mask) == [str |-> value, mask |-> mask]
PrefixedText(value, netmask) == [str |-> value, netmask |-> netmask]
is_int(value) == "int" \in DOMAIN value
has_slash(value) == DOMAIN value \cap {"mask_digits", "mask", "netmask"} # {}

\* the text of a hardware address and of an IP address
HWText(octets, upper) == [hex |-> octets, upper |-> upper]
IPText(octets) == [dotted |-> octets]
ALL_ONES_MAC == HWText(<<255, 255, 255, 255, 255, 255>>, TRUE)

\* str.upper
upper(text) == [text EXCEPT !.upper = TRUE]

\* HWAddress(text).pack(), HWAddress.unpack and str(): lower-case text
HWAddress_pack(text) == text.hex
HWAddress_str(octets) == HWText(SubSeq(octets, 1, 6), FALSE)

\* IPAddress(text).pack(), IPAddress.unpack and str(), of either family
IPAddress_pack(text) == text.dotted
IPAddress_str(octets, size) == IPText(SubSeq(octets, 1, size \div 8))

\* int.to_bytes(length, 'big') of an n below 2^31 that fits the length
byte_at(n, k) == IF k >= 4 THEN 0 ELSE (n \div (256 ^ k)) % 256
to_bytes(n, length) == [i \in 1..length |-> byte_at(n, length - i)]

RECURSIVE from_bytes(_)
\* int.from_bytes(bytes, 'big')
from_bytes(bytes) ==
    IF bytes = <<>> THEN 0
    ELSE from_bytes(SubSeq(bytes, 1, Len(bytes) - 1)) * 256 + bytes[Len(bytes)]

\* value | OFPVID_PRESENT
or_present(value) ==
    IF (value \div OFPVID_PRESENT) % 2 = 1 THEN value ELSE value + OFPVID_PRESENT

\* utils.mask_to_bytes: the top `mask` bits of `size` bits set
mask_to_bytes(mask, size) ==
    [j \in 1..(size \div 8) |->
        LET ones == IF mask - 8 * (j - 1) < 0 THEN 0
                    ELSE IF mask - 8 * (j - 1) > 8 THEN 8 ELSE mask - 8 * (j - 1)
        IN 256 - 2 ^ (8 - ones)]

\* format(int.from_bytes(tobytes, 'big'), 'b'): no leading zeros
strbits(tobytes) ==
    LET bits == [j \in 1..(8 * Len(tobytes)) |->
                    (tobytes[((j - 1) \div 8) + 1] \div (2 ^ (7 - ((j - 1) % 8)))) % 2]
        set == {j \in 1..Len(bits) : bits[j] = 1}
    IN IF set = {} THEN <<0>>
       ELSE SubSeq(bits, CHOOSE j \in set : \A k \in set : j <= k, Len(bits))

\* utils.bytes_to_mask: the index of the loop at its break, if it breaks
bytes_to_mask_break(tobytes, size) ==
    LET zeros == {i \in 1..size : i <= Len(strbits(tobytes)) /\ strbits(tobytes)[i] = 0}
    IN IF zeros = {} THEN 0 ELSE CHOOSE i \in zeros : \A k \in zeros : i <= k

\* utils.bytes_to_mask reads past the end of the bit string
bytes_to_mask_raises(tobytes, size) ==
    bytes_to_mask_break(tobytes, size) = 0 /\ Len(strbits(tobytes)) < size

\* utils.bytes_to_mask
bytes_to_mask(tobytes, size) ==
    IF bytes_to_mask_break(tobytes, size) = 0 THEN size
    ELSE bytes_to_mask_break(tobytes, size) - 1

\* the subclasses of MatchField: name, oxm_field, how the value is packed
\* and in how many bytes (bits for the IP addresses)
MatchFieldClasses ==
    {
     [name |-> "dl_vlan", oxm_field |-> "OFPXMT_OFB_VLAN_VID", kind |-> "vlan", size |-> 2],
     [name |-> "dl_vlan_pcp", oxm_field |-> "OFPXMT_OFB_VLAN_PCP", kind |-> "int", size |-> 1],
     [name |-> "dl_src", oxm_field |-> "OFPXMT_OFB_ETH_SRC", kind |-> "mac", size |-> 6],
     [name |-> "dl_dst", oxm_field |-> "OFPXMT_OFB_ETH_DST", kind |-> "mac", size |-> 6],
     [name |-> "dl_type", oxm_field |-> "OFPXMT_OFB_ETH_TYPE", kind |-> "int", size |-> 2],
     [name |-> "nw_src", oxm_field |-> "OFPXMT_OFB_IPV4_SRC", kind |-> "ip", size |-> 32],
     [name |-> "nw_dst", oxm_field |-> "OFPXMT_OFB_IPV4_DST", kind |-> "ip", size |-> 32],
     [name |-> "nw_proto", oxm_field |-> "OFPXMT_OFB_IP_PROTO", kind |-> "int", size |-> 1],
     [name |-> "in_port", oxm_field |-> "OFPXMT_OFB_IN_PORT", kind |-> "int", size |-> 4],
     [name |-> "tp_src", oxm_field |-> "OFPXMT_OFB_TCP_SRC", kind |-> "int", size |-> 2],
     [name |-> "tp_dst", oxm_field |-> "OFPXMT_OFB_TCP_DST", kind |-> "int", size |-> 2],
     [name |-> "in_phy_port", oxm_field |-> "OFPXMT_OFB_IN_PHY_PORT", kind |-> "int", size |-> 4],
     [name |-> "ip_dscp", oxm_field |-> "OFPXMT_OFB_IP_DSCP", kind |-> "int", size |-> 1],
     [name |-> "ip_ecn", oxm_field |-> "OFPXMT_OFB_IP_ECN", kind |-> "int", size |-> 1],
     [name |-> "udp_src", oxm_field |-> "OFPXMT_OFB_UDP_SRC", kind |-> "int", size |-> 2],
     [name |-> "udp_dst", oxm_field |-> "OFPXMT_OFB_UDP_DST", kind |-> "int", size |-> 2],
     [name |-> "sctp_src", oxm_field |-> "OFPXMT_OFB_SCTP_SRC", kind |-> "int", size |-> 2],
     [name |-> "sctp_dst", oxm_field |-> "OFPXMT_OFB_SCTP_DST", kind |-> "int", size |-> 2],
     [name |-> "icmpv4_type", oxm_field |-> "OFPXMT_OFB_ICMPV4_TYPE", kind |-> "int", size |-> 1],
     [name |-> "icmpv4_code", oxm_field |-> "OFPXMT_OFB_ICMPV4_CODE", kind |-> "int", size |-> 1],
     [name |-> "arp_op", oxm_field |-> "OFPXMT_OFB_ARP_OP", kind |-> "int", size |-> 2],
     [name |-> "arp_spa", oxm_field |-> "OFPXMT_OFB_ARP_SPA", kind |-> "ip", size |-> 32],
     [name |-> "arp_tpa", oxm_field |-> "OFPXMT_OFB_ARP_TPA", kind |-> "ip", size |-> 32],
     [name |-> "arp_sha", oxm_field |-> "OFPXMT_OFB_ARP_SHA", kind |-> "mac", size |-> 6],
     [name |-> "arp_tha", oxm_field |-> "OFPXMT_OFB_ARP_THA", kind |-> "mac", size |-> 6],
     [name |-> "mpls_lab", oxm_field |-> "OFPXMT_OFB_MPLS_LABEL", kind |-> "int", size |-> 4],
     [name |-> "mpls_tc", oxm_field |-> "OFPXMT_OFB_MPLS_TC", kind |-> "int", size |-> 1],
     [name |-> "mpls_bos", oxm_field |-> "OFPXMT_OFP_MPLS_BOS", kind |-> "int", size |-> 1],
     [name |-> "pbb_isid", oxm_field |-> "OFPXMT_OFB_PBB_ISID", kind |-> "masked_int", size |-> 3],
     [name |-> "metadata", oxm_field |-> "OFPXMT_OFB_METADATA", kind |-> "masked_int", size |-> 8],
     [name |-> "tun_id", oxm_field |-> "OFPXMT_OFB_TUNNEL_ID", kind |-> "masked_int", size |-> 8],
     [name |-> "ipv6_src", oxm_field |-> "OFPXMT_OFB_IPV6_SRC", kind |-> "ip", size |-> 128],
     [name |-> "ipv6_dst", oxm_field |-> "OFPXMT_OFB_IPV6_DST", kind |-> "ip", size |-> 128],
     [name |-> "ipv6_flabel", oxm_field |-> "OFPXMT_OFB_IPV6_FLABEL", kind |-> "masked_int", size |-> 4],
     [name |-> "icmpv6_type", oxm_field |-> "OFPXMT_OFB_ICMPV6_TYPE", kind |-> "int", size |-> 1],
     [name |-> "icmpv6_code", oxm_field |-> "OFPXMT_OFB_ICMPV6_CODE", kind |-> "int", size |-> 1],
     [name |-> "nd_tar", oxm_field |-> "OFPXMT_OFB_IPV6_ND_TARGET", kind |-> "int", size |-> 16],
     [name |-> "nd_sll", oxm_field |-> "OFPXMT_OFB_IPV6_ND_SLL", kind |-> "int", size |-> 6],
     [name |-> "nd_tll", oxm_field |-> "OFPXMT_OFB_IPV6_ND_TLL", kind |-> "int", size |-> 6],
     [name |-> "v6_hdr", oxm_field |-> "OFPXMT_OFB_IPV6_EXTHDR", kind |-> "masked_int", size |-> 2]
    }

NoClass == [name |-> "", oxm_field |-> "", kind |-> "", size |-> 0]
NoField == [name |-> "", value |-> IntValue(0)]
NoTLV == [oxm_field |-> "", oxm_hasmask |-> FALSE, oxm_value |-> <<>>]

\* MatchField.__init__ of the subclass named cls
MatchField(cls, value) == [name |-> cls, value |-> value]

\* OxmTLV(oxm_field, oxm_hasmask, oxm_value)
OxmTLV(oxm_field, oxm_hasmask, oxm_value) ==
    [oxm_field |-> oxm_field, oxm_hasmask |-> oxm_hasmask, oxm_value |-> oxm_value]

\* MatchFieldFactory._get_class
MatchFieldFactory_get_class(name_or_field) ==
    LET found == {c \in MatchFieldClasses :
                     c.name = name_or_field \/ c.oxm_field = name_or_field}
    IN IF found = {} THEN NoClass ELSE CHOOSE c \in found : TRUE

\* as_of_tlv of the integer fields without a mask
int_as_of_tlv(cls, value) ==
    OxmTLV(cls.oxm_field, FALSE, to_bytes(value.int, cls.size))

\* as_of_tlv of MatchDLVLAN and of the integer fields with a mask
masked_int_as_of_tlv(cls, self_value) ==
    LET value == IF is_int(self_value) THEN self_value.int ELSE self_value.digits
        mask == IF is_int(self_value) THEN None ELSE self_value.mask_digits
        oxm_hasmask == ~is_int(self_value)
        stored == IF cls.kind = "vlan" THEN or_present(value) ELSE value
        stored_mask == IF cls.kind = "vlan" THEN or_present(mask) ELSE mask
    IN OxmTLV(cls.oxm_field, oxm_hasmask,
              to_bytes(stored, cls.size)
              \o (IF mask # None /\ mask # 0 THEN to_bytes(stored_mask, cls.size)
                  ELSE <<>>))

\* the all-ones mask is not recognised
mac_as_of_tlv_keep_mask(cls, self_value) ==
    OxmTLV(cls.oxm_field, has_slash(self_value),
           HWAddress_pack(self_value.str)
           \o (IF has_slash(self_value) THEN HWAddress_pack(self_value.mask) ELSE <<>>))

\* as_of_tlv of the hardware address fields
mac_as_of_tlv(cls, self_value) ==
    LET given == has_slash(self_value)
        oxm_hasmask == given /\ upper(self_value.mask) # ALL_ONES_MAC
    IN OxmTLV(cls.oxm_field, oxm_hasmask,
              HWAddress_pack(self_value.str)
              \o (IF oxm_hasmask THEN HWAddress_pack(upper(self_value.mask)) ELSE <<>>))

\* as_of_tlv of the IPv4 and IPv6 address fields
ip_as_of_tlv(cls, self_value) ==
    LET netmask == IF has_slash(self_value) THEN self_value.netmask ELSE cls.size
    IN OxmTLV(cls.oxm_field, netmask < cls.size,
              IPAddress_pack(self_value.str)
              \o (IF netmask < cls.size THEN mask_to_bytes(netmask, cls.size) ELSE <<>>))

\* MatchField.as_of_tlv of each subclass
as_of_tlv(field) ==
    LET cls == MatchFieldFactory_get_class(field.name)
    IN CASE cls.kind = "int" -> int_as_of_tlv(cls, field.value)
         [] cls.kind \in {"vlan", "masked_int"} -> masked_int_as_of_tlv(cls, field.value)
         [] cls.kind = "mac" -> mac_as_of_tlv(cls, field.value)
         [] cls.kind = "ip" -> ip_as_of_tlv(cls, field.value)

\* the 'present' bit left in the decoded VLAN id
vlan_from_of_tlv_with_present_bit(cls, tlv) ==
    MatchField(cls.name, IntValue(from_bytes(SubSeq(tlv.oxm_value, 1, 2))))

\* MatchDLVLAN.from_of_tlv
vlan_from_of_tlv(cls, tlv) ==
    LET vlan_id == from_bytes(SubSeq(tlv.oxm_value, 1, 2)) % 4096
        vlan_mask == from_bytes(SubSeq(tlv.oxm_value, 3, Len(tlv.oxm_value))) % 4096
    IN MatchField(cls.name, IF tlv.oxm_hasmask THEN MaskedInt(vlan_id, vlan_mask)
                            ELSE IntValue(vlan_id))

\* from_of_tlv of the integer fields, with a mask or without
int_from_of_tlv(cls, tlv) ==
    LET value == from_bytes(SubSeq(tlv.oxm_value, 1, cls.size))
        mask == from_bytes(SubSeq(tlv.oxm_value, cls.size + 1, Len(tlv.oxm_value)))
    IN MatchField(cls.name,
                  IF cls.kind = "masked_int" /\ tlv.oxm_hasmask THEN MaskedInt(value, mask)
                  ELSE IF cls.kind = "masked_int" THEN IntValue(value)
                  ELSE IntValue(from_bytes(tlv.oxm_value)))

\* from_of_tlv of the hardware address fields
mac_from_of_tlv(cls, tlv) ==
    IF Len(tlv.oxm_value) < 6 \/ (tlv.oxm_hasmask /\ Len(tlv.oxm_value) < 12)
    THEN Raised("UnpackException")
    ELSE LET addr_str == HWAddress_str(tlv.oxm_value)
             mask_str == HWAddress_str(SubSeq(tlv.oxm_value, 7, Len(tlv.oxm_value)))
         IN MatchField(cls.name, IF tlv.oxm_hasmask THEN MaskedText(addr_str, mask_str)
                                 ELSE Text(addr_str))

\* from_of_tlv of the IPv4 and IPv6 address fields
ip_from_of_tlv(cls, tlv) ==
    LET width == cls.size \div 8
        addr_str == IPAddress_str(tlv.oxm_value, cls.size)
        tobytes == SubSeq(tlv.oxm_value, width + 1, Len(tlv.oxm_value))
    IN IF Len(tlv.oxm_value) < width THEN Raised("UnpackException")
       ELSE IF ~tlv.oxm_hasmask THEN MatchField(cls.name, Text(addr_str))
       ELSE IF bytes_to_mask_raises(tobytes, cls.size) THEN Raised("IndexError")
       ELSE MatchField(cls.name, PrefixedText(addr_str, bytes_to_mask(tobytes, cls.size)))

\* MatchField.from_of_tlv of each subclass
from_of_tlv(cls, tlv) ==
    CASE cls.kind \in {"int", "masked_int"} -> int_from_of_tlv(cls, tlv)
      [] cls.kind = "vlan" -> vlan_from_of_tlv(cls, tlv)
      [] cls.kind = "mac" -> mac_from_of_tlv(cls, tlv)
      [] cls.kind = "ip" -> ip_from_of_tlv(cls, tlv)

\* MatchFieldFactory.from_name
MatchFieldFactory_from_name(name, value) ==
    LET field_class == MatchFieldFactory_get_class(name)
    IN IF field_class # NoClass THEN MatchField(field_class.name, value) ELSE NoField

\* a TLV of no class is an error
MatchFieldFactory_from_of_tlv_strict(tlv) ==
    LET field_class == MatchFieldFactory_get_class(tlv.oxm_field)
    IN IF field_class # NoClass THEN from_of_tlv(field_class, tlv) ELSE Raised("KeyError")

\* MatchFieldFactory.from_of_tlv
MatchFieldFactory_from_of_tlv(tlv) ==
    LET field_class == MatchFieldFactory_get_class(tlv.oxm_field)
    IN IF field_class # NoClass THEN from_of_tlv(field_class, tlv) ELSE NoField

\* ------------------------------------------------------ Match of v0x04
\* the attributes of a Match object in the order of its __dict__; the last
\* one is not a match field
MatchAttrOrder == <<"in_port", "dl_vlan", "unknown_field">>

\* Match.as_of_match: a TLV for every attribute that is not None and has a class
as_of_match(self) ==
    LET names == SelectSeq(MatchAttrOrder,
                           LAMBDA field_name :
                               /\ field_name \in DOMAIN self
                               /\ self[field_name] # None
                               /\ MatchFieldFactory_from_name(field_name, IntValue(self[field_name]))
                                  # NoField)
    IN [i \in 1..Len(names) |->
           as_of_tlv(MatchFieldFactory_from_name(names[i], IntValue(self[names[i]])))]

RECURSIVE from_of_match(_)
\* Match.from_of_match: the attributes of the fields of the TLVs, in order
from_of_match(oxm_match_fields) ==
    IF oxm_match_fields = <<>> THEN MatchBase(None, None)
    ELSE LET match == from_of_match(SubSeq(oxm_match_fields, 1, Len(oxm_match_fields) - 1))
             field == MatchFieldFactory_from_of_tlv(oxm_match_fields[Len(oxm_match_fields)])
         IN IF has_raised(match) THEN match
            ELSE IF has_raised(field) THEN field
            ELSE IF field = NoField THEN match
            ELSE [match EXCEPT ![field.name] = field.value.int]

\* ------------------------------------------- flows from the switch's replies
\* a pyof value: the native value is its .value
UBInt(value) == [value |-> value]

\* the pyof actions of a flow-statistics entry
OFActionOutput(port) == [of_class |-> "OFActionOutput", port |-> UBInt(port)]
OFActionSetField(field) == [of_class |-> "OFActionSetField", field |-> field]
OFActionPush(ethertype) == [of_class |-> "OFActionPush", ethertype |-> UBInt(ethertype)]
OFActionPopVLAN == [of_class |-> "OFActionPopVLAN"]
OFActionGroup == [of_class |-> "OFActionGroup", group_id |-> UBInt(1)]

\* a pyof instruction that carries actions
Instruction(instruction_type, actions) ==
    [instruction_type |-> instruction_type, actions |-> actions]

\* a pyof FlowStats entry of a multipart reply
OFFlowStats(instructions, counters) ==
    [table_id |-> UBInt(1), priority |-> UBInt(2), idle_timeout |-> UBInt(3),
     hard_timeout |-> UBInt(4), cookie |-> UBInt(5), flags |-> UBInt(0),
     match |-> [oxm_match_fields |-> as_of_match(MatchBase(1, 42))],
     instructions |-> instructions,
     byte_count |-> UBInt(counters.byte_count),
     duration_sec |-> UBInt(counters.duration_sec),
     duration_nsec |-> UBInt(counters.duration_nsec),
     packet_count |-> UBInt(counters.packet_count)]

\* no action: None
NoAction == [none |-> TRUE]

\* Action._action_class of v0x04, by pyof class
of_action_class ==
    [OFActionOutput |-> "output", OFActionSetField |-> "set_vlan",
     OFActionPush |-> "push_vlan", OFActionPopVLAN |-> "pop_vlan"]

\* from_of_action of ActionOutput, ActionSetVlan, ActionPushVlan, ActionPopVlan
ActionBase_from_of_action(cls, of_action) ==
    CASE cls = "output" -> ActionOutput(of_action.port.value)
      [] cls = "set_vlan" -> ActionSetVlan(from_bytes(of_action.field.oxm_value) % 4096)
      [] cls = "push_vlan" ->
            ActionPushVlan(IF of_action.ethertype.value = "VLAN_QINQ" THEN "s" ELSE "c")
      [] cls = "pop_vlan" -> ActionPopVlan

\* ActionFactoryBase.from_of_action
ActionFactoryBase_from_of_action(of_action) ==
    IF of_action.of_class \in DOMAIN of_action_class
    THEN ActionBase_from_of_action(of_action_class[of_action.of_class], of_action)
    ELSE NoAction

RECURSIVE chain(_)
\* itertools.chain.from_iterable
chain(lists) ==
    IF lists = <<>> THEN <<>> ELSE Head(lists) \o chain(Tail(lists))

\* the actions of every instruction that has actions
get_of_actions_any_instruction(of_flow_stats) ==
    LET of_instructions ==
            SelectSeq(of_flow_stats.instructions,
                      LAMBDA ins : "actions" \in DOMAIN ins)
    IN chain([i \in 1..Len(of_instructions) |-> of_instructions[i].actions])

\* Flow._get_of_actions of v0x04
get_of_actions(of_flow_stats) ==
    LET of_instructions ==
            SelectSeq(of_flow_stats.instructions,
                      LAMBDA ins : ins.instruction_type = "OFPIT_APPLY_ACTIONS")
    IN chain([i \in 1..Len(of_instructions) |-> of_instructions[i].actions])

\* Stats.from_of_flow_stats / Stats.update: the attributes of the entry
\* that the statistics object has, by their .value
Stats_from_of_flow_stats(of_stats) ==
    LET stats == FlowStats
    IN [attr_name \in DOMAIN stats |->
            IF attr_name \in DOMAIN of_stats THEN of_stats[attr_name].value
            ELSE stats[attr_name]]

\* FlowBase.from_of_flow_stats
from_of_flow_stats(of_version, of_flow_stats, switch) ==
    LET of_actions == get_of_actions(of_flow_stats)
        actions == [i \in 1..Len(of_actions) |->
                        ActionFactoryBase_from_of_action(of_actions[i])]
        non_none_actions == SelectSeq(actions, LAMBDA action : action # NoAction)
    IN Flow(of_version, switch,
            of_flow_stats.table_id.value,
            from_of_match(of_flow_stats.match.oxm_match_fields),
            of_flow_stats.priority.value,
            of_flow_stats.idle_timeout.value,
            of_flow_stats.hard_timeout.value,
            of_flow_stats.cookie.value,
            non_none_actions,
            Stats_from_of_flow_stats(of_flow_stats),
            0)

\* -------------------------------------------------------------------- state
VARIABLES
    conn_state,      \* connection.state: NEW, SETUP, ESTABLISHED, FAILED, FINISHED
    socket,          \* connection.socket is not None
    proto_state,     \* connection.protocol.state ("none" until negotiation)
    proto_version,   \* connection.protocol.version (None until negotiation)
    remaining_data,  \* connection.remaining_data
    pc,              \* position of the running handle_raw_in: "idle" or "loop"
    packets,         \* packets of the current batch not yet looked at
    unprocessed,     \* unprocessed_packets of the running handle_raw_in
    msg_in,          \* controller.buffers.msg_in, every event put so far
    in_handled,      \* how many msg_in events were given to their listeners
    msg_out,         \* controller.buffers.msg_out, every event put so far
    out_handled,     \* how many msg_out events were given to their listeners
    app_events,      \* controller.buffers.app, names of the events put so far
    switch_created,  \* the controller knows the switch (connection.switch is set)
    switch_connection, \* switch.connection is this connection
    switch_flows,    \* switch.flows
    multipart_replies_xids,   \* Main._multipart_replies_xids
    multipart_replies_flows,  \* Main._multipart_replies_flows
    wire,            \* bytes the peer sent that have not arrived yet
    nsent,           \* frames the peer sent so far (the next frame's xid - 1)
    nraw,            \* raw-in events so far
    nreq,            \* flow-stats requests so far
    nfrag,           \* multipart replies so far
    hello_seen,      \* the hello given to _negotiate, if any
    last_reply,      \* the last multipart reply handled and what was done with it
    expected_flows,  \* per xid, the flows accepted since the last finalization
    dropped,         \* flows of the fragments that were not ours
    handlers,        \* per listener thread, the statement it is at and its locals
    heap,            \* the list objects: heap[r] is the content of list r
    replies_flows_obj, \* _multipart_replies_flows as references into heap
    switch_flows_obj, \* the list object bound to switch.flows
    flow_1,          \* a Flow object
    flow_2,          \* the Flow object it is compared with
    eq_result,       \* what flow_1 == flow_2 returned or raised
    ids,             \* <<flow_1.id, flow_2.id>>
    rebuilt,         \* what from_dict(flow_1.as_dict(), switch) returned or raised
    match_field,     \* a MatchField object
    of_tlv,          \* what match_field.as_of_tlv() returned
    field_back,      \* what from_of_tlv(of_tlv) returned or raised
    match_pc,        \* how far a Match went: new, built, dumped, packed, unpacked
    match_input,     \* the dictionary, the foreign attributes and the foreign TLV
    match_obj,       \* the Match object built from the dictionary
    dict_back,       \* what match_obj.as_dict() returned
    of_match,        \* the TLVs of match_obj.as_of_match()
    match_back,      \* what Match.from_of_match returned for the TLVs received
    build_input,     \* action dictionaries and a flow-statistics entry to build from
    build_done,      \* which of the builders have run
    actions_back,    \* per action dictionary, what Action.from_dict returned or raised
    flow_from_dict,  \* what Flow.from_dict returned or raised
    flow_from_stats, \* what Flow.from_of_flow_stats returned
    stream_data,     \* the bytes a peer sends, whole
    stream_fed,      \* how many of them have arrived in raw-in events
    stream_rem,      \* connection.remaining_data between the events
    stream_pkts,     \* the packets sliced so far, over all events
    stream_calls,    \* how many times of_slicer ran
    stream_carried,  \* some call completed a frame begun in a remainder
    switch_description, \* what switch.update_description stored last
    switch_interfaces,  \* switch.interfaces: port number to Interface
    last_multipart,  \* type, xid and flags of the multipart reply handled last
    registry_classes, \* MatchFieldFactory.__classes: name or oxm_field to class
    lookups          \* per thread, how far its call of _get_class went

conn_vars == <<conn_state, socket, proto_state, proto_version, remaining_data>>
raw_vars == <<pc, packets, unprocessed>>
buffer_vars == <<msg_in, in_handled, msg_out, out_handled, app_events>>
switch_vars == <<switch_created, switch_connection, switch_flows>>
multipart_vars == <<multipart_replies_xids, multipart_replies_flows>>
peer_vars == <<wire, nsent, nraw>>
count_vars == <<nreq, nfrag>>
hist_vars == <<hello_seen, last_reply, expected_flows, dropped>>
thread_vars == <<handlers, heap, replies_flows_obj, switch_flows_obj>>
inventory_vars == <<switch_description, switch_interfaces, last_multipart>>
flow_vars == <<flow_1, flow_2, eq_result, ids, rebuilt>>
field_vars == <<match_field, of_tlv, field_back>>
match_vars == <<match_pc, match_input, match_obj, dict_back, of_match, match_back>>
build_vars == <<build_input, build_done, actions_back, flow_from_dict, flow_from_stats>>
stream_vars == <<stream_data, stream_fed, stream_rem, stream_pkts, stream_calls, stream_carried>>
registry_vars == <<registry_classes, lookups>>
call_vars == <<flow_vars, field_vars, match_vars, build_vars, stream_vars, registry_vars>>
machine_vars == <<conn_vars, raw_vars, buffer_vars, switch_vars, multipart_vars,
                  peer_vars, count_vars, hist_vars, thread_vars, inventory_vars>>

vars == <<conn_vars, raw_vars, buffer_vars, switch_vars, multipart_vars,
          peer_vars, count_vars, hist_vars, thread_vars, inventory_vars, call_vars>>

NoHello == [seen |-> FALSE, ok |-> FALSE, version |-> 0, xid |-> 0, versions |-> {}]
NoReply == [xid |-> 0, flags |-> 0, body |-> <<>>, ours |-> FALSE, final |-> FALSE]
EmptyDict == [d \in {} |-> 0]
NoExpected == [x \in Xids |-> <<>>]
Threads == {1, 2}
NoHandler == [pc |-> "idle", xid |-> 0, flags |-> 0, body |-> <<>>, all_flows |-> 0]

\* no listener thread is running; switch.flows is an empty list of its own
InitThreads ==
    /\ handlers = [t \in Threads |-> NoHandler]
    /\ heap = <<<<>>>>
    /\ replies_flows_obj = EmptyDict
    /\ switch_flows_obj = 1

\* no flow object is under comparison
InitNoFlows ==
    /\ flow_1 = FlowDefault(4, [id |-> Dpid])
    /\ flow_2 = FlowDefault(4, [id |-> Dpid])
    /\ eq_result = "none"
    /\ ids = <<>>
    /\ rebuilt = [done |-> FALSE]

\* no match field is being converted
InitNoField ==
    /\ match_field = NoField
    /\ of_tlv = NoTLV
    /\ field_back = NoField

\* no Match is being converted
InitNoMatch ==
    /\ match_pc = "none"
    /\ match_input = [match_dict |-> EmptyDict, attributes |-> EmptyDict, unknown_at |-> 0]
    /\ match_obj = MatchBase(None, None)
    /\ dict_back = EmptyDict
    /\ of_match = <<>>
    /\ match_back = MatchBase(None, None)

\* no flow is being built
InitNoBuild ==
    /\ build_input = [of_version |-> 4, action_dicts |-> <<>>,
                      of_flow_stats |-> OFFlowStats(<<>>, FlowStats)]
    /\ build_done = {"none"}
    /\ actions_back = <<>>
    /\ flow_from_dict = FlowDefault(4, [id |-> Dpid])
    /\ flow_from_stats = FlowDefault(4, [id |-> Dpid])

\* no stream is being sliced on its own
InitNoStream ==
    /\ stream_data = <<>>
    /\ stream_fed = 0
    /\ stream_rem = <<>>
    /\ stream_pkts = <<>>
    /\ stream_calls = 0
    /\ stream_carried = FALSE

\* a switch without description and without interfaces
InitInventory ==
    /\ switch_description = ""
    /\ switch_interfaces = EmptyDict
    /\ last_multipart = [multipart_type |-> "none", xid |-> 0, flags |-> 0]

\* the registry is not built and no thread looks a class up
NoLookup == [pc |-> "idle", name_or_field |-> "", i |-> 0, result |-> ""]
InitNoRegistry ==
    /\ registry_classes = EmptyDict
    /\ lookups = [t \in Threads |-> NoLookup]

\* no function of the flow and match modules is being called
InitNoCalls ==
    /\ InitNoRegistry
    /\ InitNoFlows
    /\ InitNoField
    /\ InitNoMatch
    /\ InitNoBuild
    /\ InitNoStream

InitConnection ==
    /\ conn_state = "NEW"
    /\ socket = TRUE
    /\ proto_state = "none"
    /\ proto_version = None
    /\ remaining_data = <<>>
    /\ pc = "idle"
    /\ packets = <<>>
    /\ unprocessed = <<>>
    /\ msg_in = <<>>
    /\ in_handled = 0
    /\ msg_out = <<>>
    /\ out_handled = 0
    /\ app_events = <<>>
    /\ switch_created = FALSE
    /\ switch_connection = FALSE
    /\ switch_flows = <<>>
    /\ multipart_replies_xids = EmptyDict
    /\ multipart_replies_flows = EmptyDict
    /\ wire = <<>>
    /\ nsent = 0
    /\ nraw = 0
    /\ nreq = 0
    /\ nfrag = 0
    /\ hello_seen = NoHello
    /\ last_reply = NoReply
    /\ expected_flows = NoExpected
    /\ dropped = {}
    /\ InitThreads
    /\ InitInventory

Init ==
    /\ InitConnection
    /\ InitNoCalls

\* ------------------------------------------------------- connection queries
\* liveness never checked
is_alive_always == TRUE

is_alive == socket /\ conn_state \notin {"FINISHED", "FAILED"}
\* an established connection taken as new
is_new_or_established == conn_state \in {"NEW", "ESTABLISHED"}

is_new == conn_state = "NEW"
is_during_setup == conn_state = "SETUP"
is_established == conn_state = "ESTABLISHED"
is_connected == switch_created /\ switch_connection /\ is_alive /\ is_established

\* ------------------------------------------------------------ event buffers
OutEvent(name, version, xid, kind) ==
    [name |-> name, version |-> version, xid |-> xid, kind |-> kind, data |-> <<>>]

\* utils.emit_message_out: put the message on msg_out
emit_message_out(queue, message) == Append(queue, message)

\* the message is put on msg_out whether the connection is alive or not
Main_emit_message_out_always(queue, alive, message) == emit_message_out(queue, message)

\* Main.emit_message_out: only for a connection that is alive
Main_emit_message_out(queue, alive, message) ==
    IF alive THEN emit_message_out(queue, message) ELSE queue

\* Main.emit_message_in: only for a connection that is alive
Main_emit_message_in(queue, alive, message) ==
    IF alive
    THEN Append(queue, [name |-> message_type_name(message.header.message_type),
                        version |-> message.header.version,
                        xid |-> message.header.xid,
                        data |-> message.data])
    ELSE queue

\* the first event after position i that has a listener in this NApp, or 0
RECURSIVE next_listened(_, _, _)
next_listened(queue, i, names) ==
    IF i >= Len(queue) THEN 0
    ELSE IF queue[i + 1].name \in names THEN i + 1
    ELSE next_listened(queue, i + 1, names)

InListened == {"ofpt_features_reply", "ofpt_echo_request"}
OutListened == {"ofpt_features_request", "ofpt_echo_reply"}
next_in == next_listened(msg_in, in_handled, InListened)
next_out == next_listened(msg_out, out_handled, OutListened)

\* ----------------------------------------------------------------- the peer
\* the frames a switch sends; xid is the frame's position in the stream
HelloBitmap(version, xid, bitmap) ==
    Header(version, OFPT_HELLO, 16, xid)
        \o <<0, OFPHET_VERSIONBITMAP, 0, 8>>
        \o <<0, 0, bitmap \div 256, bitmap % 256>>

\* the opaque payload of the echo request with this xid
EchoPayload(xid) == <<100 + xid>>

Frame(kind, version, xid) ==
    CASE kind = "hello4" -> Header(4, OFPT_HELLO, 8, xid)
      [] kind = "hello1" -> Header(1, OFPT_HELLO, 8, xid)
      [] kind = "hello3" -> Header(3, OFPT_HELLO, 8, xid)
      [] kind = "hello5" -> Header(5, OFPT_HELLO, 8, xid)
      [] kind = "hello_b14" -> HelloBitmap(4, xid, Pow2(1) + Pow2(4))
      [] kind = "hello_b9" -> HelloBitmap(9, xid, Pow2(9))
      [] kind = "freply" -> Header(version, OFPT_FEATURES_REPLY, 8, xid)
      [] kind = "echo" -> Header(version, OFPT_ECHO_REQUEST, 9, xid) \o EchoPayload(xid)
      [] kind = "bad" -> Header(version, OFPT_UNKNOWN, 8, xid)

FirstKinds == {"hello4", "hello1", "hello3", "hello5", "hello_b14", "hello_b9", "echo"}
LaterKinds == {"freply", "echo", "bad"}
Holds == {0, 5}

KindsAt(n) == IF n = 1 THEN FirstKinds ELSE LaterKinds
PeerVersion == IF proto_version \in PYOF_VERSION_LIBS THEN proto_version ELSE 4

\* the batches of at most MaxBatch frames the peer can send next
BatchKinds ==
    {kinds \in UNION {[1..n -> FirstKinds \cup LaterKinds] : n \in 0..MaxBatch} :
        \A i \in DOMAIN kinds : kinds[i] \in KindsAt(nsent + i)}

Batches ==
    {[i \in DOMAIN kinds |-> Frame(kinds[i], PeerVersion, nsent + i)] : kinds \in BatchKinds}

\* the batches of a peer that starts with a hello of a supported or of an
\* unsupported version and may repeat its hello after the first frame
HelloAgainFirstKinds == {"hello4", "hello3"}
HelloAgainKinds == {"freply", "echo", "hello4"}

BatchesHelloAgain ==
    {[i \in DOMAIN kinds |-> Frame(kinds[i], PeerVersion, nsent + i)] :
        kinds \in {k \in UNION {[1..n -> HelloAgainFirstKinds \cup HelloAgainKinds] :
                                    n \in 0..MaxBatch} :
                      \A i \in DOMAIN k :
                          k[i] \in (IF nsent + i = 1 THEN HelloAgainFirstKinds
                                    ELSE HelloAgainKinds)}}

\* ------------------------------------------------------------ handle_raw_in
raw_return ==
    /\ pc' = "idle"
    /\ packets' = <<>>
    /\ unprocessed' = <<>>

\* the end of the loop body: the next packet, or the statement after the loop
raw_continue(unprocessed_packets) ==
    IF Tail(packets) = <<>>
    THEN /\ remaining_data' = join(unprocessed_packets) \o remaining_data
         /\ raw_return
    ELSE /\ packets' = Tail(packets)
         /\ unprocessed' = unprocessed_packets
         /\ UNCHANGED <<pc, remaining_data>>

\* the socket left open
close_socket_kept ==
    /\ UNCHANGED socket
    /\ switch_connection' = FALSE

\* connection.close()
close ==
    /\ socket' = FALSE
    /\ switch_connection' = FALSE

\* the event arrives: slice what is left over plus the new bytes
raw_in_begin(batches) ==
    /\ pc = "idle"
    /\ nraw < MaxRaw
    /\ \E batch \in batches, hold \in Holds :
          LET stream == wire \o join(batch)
              new_data == SubSeq(stream, 1, Len(stream) - hold)
              sliced == of_slicer(remaining_data \o new_data)
          IN  /\ nsent + Len(batch) <= MaxFrames
              /\ hold < Len(stream)
              /\ wire' = SubSeq(stream, Len(stream) - hold + 1, Len(stream))
              /\ nsent' = nsent + Len(batch)
              /\ nraw' = nraw + 1
              /\ remaining_data' = sliced.rem
              /\ IF sliced.pkts = <<>>
                 THEN UNCHANGED raw_vars
                 ELSE /\ pc' = "loop"
                      /\ packets' = sliced.pkts
                      /\ unprocessed' = <<>>
    /\ UNCHANGED <<conn_state, socket, proto_state, proto_version>>
    /\ UNCHANGED <<buffer_vars, switch_vars, multipart_vars, count_vars, hist_vars>>
    /\ UNCHANGED <<thread_vars, inventory_vars, call_vars>>

handle_raw_in_begin == raw_in_begin(Batches)

\* the same where the peer may repeat its hello
handle_raw_in_begin_hello_again == raw_in_begin(BatchesHelloAgain)

\* fail_negotiation(connection, hello_message): the events it puts
fail_negotiation_app(queue) == Append(queue, "kytos/of_core.hello_failed")
\* the error message built without the hello's xid
fail_negotiation_out_no_xid(queue, alive, hello) ==
    Main_emit_message_out(queue, alive,
        OutEvent("ofpt_error", SetMax(OPENFLOW_VERSIONS), 0,
                 "OFPET_HELLO_FAILED/OFPHFC_INCOMPATIBLE"))

fail_negotiation_out(queue, alive, hello) ==
    Main_emit_message_out(queue, alive,
        OutEvent("ofpt_error", SetMax(OPENFLOW_VERSIONS), hello.header.xid,
                 "OFPET_HELLO_FAILED/OFPHFC_INCOMPATIBLE"))

\* the features request emitted before the hello reply
negotiate_out_swapped(queue, alive, version) ==
    emit_message_out(
        Main_emit_message_out(queue, alive, OutEvent("ofpt_features_request", version, 0, "")),
        OutEvent("ofpt_hello", version, 0, ""))

\* _negotiate on success: the hello reply, then the features request
negotiate_out(queue, alive, version) ==
    Main_emit_message_out(
        emit_message_out(queue, OutEvent("ofpt_hello", version, 0, "")),
        alive, OutEvent("ofpt_features_request", version, 0, ""))

\* a features reply let through in every protocol state
buffered_during_setup_any_state(message) ==
    is_during_setup /\ message.header.message_type # OFPT_FEATURES_REPLY

\* during setup every message but the awaited features reply is kept for later
buffered_during_setup(message) ==
    is_during_setup
    /\ ~(message.header.message_type = OFPT_FEATURES_REPLY
         /\ proto_state = "waiting_features_reply")

\* one turn of the loop over the packets of the batch
handle_raw_in_packet ==
    /\ pc = "loop"
    /\ LET packet == Head(packets)
           hello == GenericHello(packet)
           version == negotiated_version(hello)
           message == unpack(packet)
       IN  IF ~is_alive
           THEN /\ raw_return
                /\ UNCHANGED <<conn_vars, buffer_vars, switch_connection, hello_seen>>
           ELSE IF is_new
           THEN /\ hello_seen' = [seen |-> TRUE, ok |-> hello.ok,
                                  version |-> hello.header.version,
                                  xid |-> hello.header.xid,
                                  versions |-> hello.versions]
                /\ IF hello.ok /\ version # None
                   THEN /\ msg_out' = negotiate_out(msg_out, is_alive, version)
                        /\ proto_version' = version
                        /\ proto_state' = "sending_features"
                        /\ conn_state' = "SETUP"
                        /\ raw_continue(unprocessed)
                        /\ UNCHANGED <<socket, switch_connection, app_events>>
                   ELSE /\ IF hello.ok
                           THEN /\ app_events' = fail_negotiation_app(app_events)
                                /\ msg_out' = fail_negotiation_out(msg_out, is_alive, hello)
                           ELSE UNCHANGED <<app_events, msg_out>>
                        /\ proto_state' = "hello_failed"
                        /\ close
                        /\ conn_state' = "FAILED"
                        /\ raw_return
                        /\ UNCHANGED <<proto_version, remaining_data>>
                /\ UNCHANGED <<msg_in, in_handled, out_handled>>
           ELSE IF ~message.ok
           THEN /\ close
                /\ conn_state' = "FINISHED"
                /\ raw_return
                /\ UNCHANGED <<proto_state, proto_version, remaining_data,
                               buffer_vars, hello_seen>>
           ELSE IF buffered_during_setup(message)
           THEN /\ raw_continue(Append(unprocessed, packet))
                /\ UNCHANGED <<conn_state, socket, proto_state, proto_version,
                               buffer_vars, switch_connection, hello_seen>>
           ELSE /\ msg_in' = Main_emit_message_in(msg_in, is_alive, message)
                /\ raw_continue(unprocessed)
                /\ UNCHANGED <<conn_state, socket, proto_state, proto_version,
                               in_handled, msg_out, out_handled, app_events,
                               switch_connection, hello_seen>>
    /\ UNCHANGED <<switch_created, switch_flows, multipart_vars, peer_vars,
                   count_vars, last_reply, expected_flows, dropped>>
    /\ UNCHANGED <<thread_vars, inventory_vars, call_vars>>

\* ---------------------------------------------------- handle_features_reply
\* version_utils.handle_features_reply: the events put on msg_out
features_reply_out(queue, version) ==
    IF version = 4
    THEN emit_message_out(queue, OutEvent("ofpt_multipart_request", 4, 0, "OFPMP_PORT_DESC"))
    ELSE queue

\* the handshake completed without the description request
handshake_complete_out_no_desc(queue, version) ==
    IF SEND_SET_CONFIG
    THEN emit_message_out(queue, OutEvent("ofpt_set_config", version, 0, ""))
    ELSE queue

\* send_desc_request and send_set_config of the negotiated version
handshake_complete_out(queue, version) ==
    LET desc == IF version = 4
                THEN OutEvent("ofpt_multipart_request", 4, 0, "OFPMP_DESC")
                ELSE OutEvent("ofpt_stats_request", version, 0, "OFPST_DESC")
        with_desc == emit_message_out(queue, desc)
    IN  IF SEND_SET_CONFIG
        THEN emit_message_out(with_desc, OutEvent("ofpt_set_config", version, 0, ""))
        ELSE with_desc

\* the connection state left unchecked
awaiting_features_reply_no_setup == proto_state = "waiting_features_reply"

\* the condition under which handle_features_reply ends the handshake
awaiting_features_reply == is_during_setup /\ proto_state = "waiting_features_reply"

handle_features_reply ==
    /\ next_in # 0
    /\ msg_in[next_in].name = "ofpt_features_reply"
    /\ in_handled' = next_in
    /\ switch_created' = TRUE
    /\ switch_connection' = TRUE
    /\ app_events' = Append(app_events, IF switch_created
                                        THEN "kytos/core.switch.reconnected"
                                        ELSE "kytos/core.switch.new")
    /\ IF awaiting_features_reply
       THEN /\ proto_state' = "handshake_complete"
            /\ conn_state' = "ESTABLISHED"
            /\ msg_out' = handshake_complete_out(
                              features_reply_out(msg_out, proto_version), proto_version)
       ELSE /\ msg_out' = features_reply_out(msg_out, proto_version)
            /\ UNCHANGED <<proto_state, conn_state>>
    /\ UNCHANGED <<socket, proto_version, remaining_data, raw_vars, msg_in,
                   out_handled, switch_flows, multipart_vars, peer_vars,
                   count_vars, hist_vars>>
    /\ UNCHANGED <<thread_vars, inventory_vars, call_vars>>

\* ------------------------------------------------------ handle_echo_request
\* the reply built without the request's payload
echo_reply_no_data(version, echo_request) ==
    OutEvent("ofpt_echo_reply", version, echo_request.xid, "")

\* EchoReply(xid=echo_request.header.xid, data=echo_request.data) of the
\* library of the negotiated version
echo_reply(version, echo_request) ==
    [OutEvent("ofpt_echo_reply", version, echo_request.xid, "")
        EXCEPT !.data = echo_request.data]

handle_echo_request ==
    /\ next_in # 0
    /\ msg_in[next_in].name = "ofpt_echo_request"
    /\ in_handled' = next_in
    /\ msg_out' = Main_emit_message_out(msg_out, is_alive,
                      echo_reply(proto_version, msg_in[next_in]))
    /\ UNCHANGED <<conn_vars, raw_vars, msg_in, out_handled, app_events,
                   switch_vars, multipart_vars, peer_vars, count_vars, hist_vars>>
    /\ UNCHANGED <<thread_vars, inventory_vars, call_vars>>

\* --------------------------------------------- listeners of msg_out events
\* the state is set whatever it was
handle_features_request_sent_always ==
    /\ next_out # 0
    /\ msg_out[next_out].name = "ofpt_features_request"
    /\ out_handled' = next_out
    /\ proto_state' = "waiting_features_reply"
    /\ UNCHANGED <<conn_state, socket, proto_version, remaining_data, raw_vars,
                   msg_in, in_handled, msg_out, app_events, switch_vars,
                   multipart_vars, peer_vars, count_vars, hist_vars>>
    /\ UNCHANGED <<thread_vars, inventory_vars, call_vars>>

handle_features_request_sent ==
    /\ next_out # 0
    /\ msg_out[next_out].name = "ofpt_features_request"
    /\ out_handled' = next_out
    /\ proto_state' = IF proto_state = "sending_features"
                      THEN "waiting_features_reply"
                      ELSE proto_state
    /\ UNCHANGED <<conn_state, socket, proto_version, remaining_data, raw_vars,
                   msg_in, in_handled, msg_out, app_events, switch_vars,
                   multipart_vars, peer_vars, count_vars, hist_vars>>
    /\ UNCHANGED <<thread_vars, inventory_vars, call_vars>>

handle_queued_openflow_echo_reply ==
    /\ next_out # 0
    /\ msg_out[next_out].name = "ofpt_echo_reply"
    /\ out_handled' = next_out
    /\ msg_out' = IF SEND_FEATURES_REQUEST_ON_ECHO
                  THEN Main_emit_message_out(msg_out, is_alive,
                           OutEvent("ofpt_features_request", proto_version, 0, ""))
                  ELSE msg_out
    /\ UNCHANGED <<conn_vars, raw_vars, msg_in, in_handled, app_events,
                   switch_vars, multipart_vars, peer_vars, count_vars, hist_vars>>
    /\ UNCHANGED <<thread_vars, inventory_vars, call_vars>>

\* ------------------------------------------------------------------ execute
\* the periodic loop: _request_flow_list, then send_echo
request_flow_list_out(queue, version, xid) ==
    IF version = 1
    THEN emit_message_out(queue, OutEvent("ofpt_stats_request", 1, 0, "OFPST_FLOW"))
    ELSE IF version = 4
    THEN emit_message_out(queue, OutEvent("ofpt_multipart_request", 4, xid, "OFPMP_FLOW"))
    ELSE queue

execute ==
    /\ is_connected
    /\ nreq < MaxReq
    /\ nreq' = nreq + 1
    /\ \E xid \in Xids :
          /\ msg_out' = LET requested == request_flow_list_out(msg_out, proto_version, xid)
                        IN  IF SEND_ECHO_REQUESTS
                            THEN emit_message_out(requested,
                                     OutEvent("ofpt_echo_request", proto_version, 0, ""))
                            ELSE requested
          /\ IF proto_version = 4
             THEN multipart_replies_xids' = (Dpid :> xid) @@ multipart_replies_xids
             ELSE UNCHANGED multipart_replies_xids
    /\ UNCHANGED <<conn_vars, raw_vars, msg_in, in_handled, out_handled, app_events,
                   switch_vars, multipart_replies_flows, peer_vars, nfrag,
                   hist_vars>>
    /\ UNCHANGED <<thread_vars, inventory_vars, call_vars>>

\* --------------------------------------------------- handle_multipart_reply
del(dict, key) == [k \in DOMAIN dict \ {key} |-> dict[k]]

\* any reply taken as ours while a request is pending
is_multipart_reply_ours_any_xid(reply) == Dpid \in DOMAIN multipart_replies_xids

\* a reply is also taken as ours when no request is pending
is_multipart_reply_ours_unless_other(reply) ==
    Dpid \in DOMAIN multipart_replies_xids => multipart_replies_xids[Dpid] = reply.xid

is_multipart_reply_ours(reply) ==
    /\ Dpid \in DOMAIN multipart_replies_xids
    /\ multipart_replies_xids[Dpid] = reply.xid

\* the flows a fragment carries: one Flow per flow-stats entry of its body
FragmentBody(n, size) == [i \in 1..size |-> 10 * n + i]

\* _handle_multipart_flow_stats for a reply of the switch of this connection
multipart_flow_stats(xid, flags, size) ==
    /\ switch_created
    /\ proto_version = 4
    /\ nfrag < MaxFrag
    /\ nfrag' = nfrag + 1
    /\ LET reply == [xid |-> xid, flags |-> flags,
                     body |-> FragmentBody(nfrag + 1, size)]
           ours == is_multipart_reply_ours(reply)
           all_flows == (IF Dpid \in DOMAIN multipart_replies_flows
                         THEN multipart_replies_flows[Dpid]
                         ELSE <<>>) \o reply.body
       IN  /\ last_reply' = [xid |-> xid, flags |-> flags, body |-> reply.body,
                             ours |-> ours,
                             final |-> ours /\ reply.flags % 2 = 0]
           /\ IF ours
              THEN /\ expected_flows' =
                          IF reply.flags % 2 = 0
                          THEN NoExpected
                          ELSE [expected_flows EXCEPT ![xid] = @ \o reply.body]
                   /\ UNCHANGED dropped
                   /\ IF reply.flags % 2 = 0
                      THEN /\ switch_flows' = all_flows
                           /\ multipart_replies_flows' = del(multipart_replies_flows, Dpid)
                           /\ multipart_replies_xids' = del(multipart_replies_xids, Dpid)
                      ELSE /\ multipart_replies_flows' =
                                  (Dpid :> all_flows) @@ multipart_replies_flows
                           /\ UNCHANGED <<switch_flows, multipart_replies_xids>>
              ELSE /\ dropped' = dropped \cup {reply.body[i] : i \in DOMAIN reply.body}
                   /\ UNCHANGED <<expected_flows, switch_flows, multipart_vars>>
    /\ UNCHANGED <<conn_vars, raw_vars, buffer_vars, switch_created,
                   switch_connection, peer_vars, nreq, hello_seen>>
    /\ UNCHANGED <<thread_vars, switch_description, switch_interfaces, call_vars>>

\* a multipart reply of type OFPMP_FLOW from the switch of this connection
handle_multipart_flow_stats ==
    \E xid \in Xids, flags \in 0..1, size \in 1..2 :
        /\ multipart_flow_stats(xid, flags, size)
        /\ last_multipart' = [multipart_type |-> "OFPMP_FLOW", xid |-> xid, flags |-> flags]

\* every multipart reply is handled as flow statistics
reply_handler_flow_stats_only(multipart_type) == "flow_stats"

\* handle_multipart_reply: the branch taken for the reply's multipart type
reply_handler(multipart_type) ==
    IF multipart_type = "OFPMP_FLOW" THEN "flow_stats"
    ELSE IF multipart_type = "OFPMP_PORT_DESC" THEN "port_desc"
    ELSE IF multipart_type = "OFPMP_DESC" THEN "description"
    ELSE "none"

\* the port lists of a port-description reply: the first ports of the switch,
\* all up or all down
Port(port_no, state) == [port_no |-> port_no, name |-> <<"eth", port_no>>, state |-> state]
PortLists == {[i \in 1..n |-> Port(i, state)] : n \in 1..MaxPorts, state \in 0..1}

\* v0x04 handle_port_desc: the interface of each port is updated or created
RECURSIVE handle_port_desc(_, _)
handle_port_desc(interfaces, port_list) ==
    IF port_list = <<>>
    THEN interfaces
    ELSE LET port == Head(port_list)
             interface == [name |-> port.name, state |-> port.state]
         IN  handle_port_desc((port.port_no :> interface) @@ interfaces, Tail(port_list))

\* a multipart reply of any type from the switch of this connection
handle_multipart_reply ==
    \E multipart_type \in MultipartTypes, xid \in Xids, flags \in 0..1 :
        LET handler == reply_handler(multipart_type)
        IN  /\ last_multipart' = [multipart_type |-> multipart_type,
                                  xid |-> xid, flags |-> flags]
            /\ IF handler = "flow_stats"
               THEN multipart_flow_stats(xid, flags, 1)
               ELSE
                 /\ switch_created
                 /\ proto_version = 4
                 /\ nfrag < MaxFrag
                 /\ nfrag' = nfrag + 1
                 /\ IF handler = "port_desc"
                    THEN \E port_list \in PortLists :
                            /\ switch_interfaces' = handle_port_desc(switch_interfaces, port_list)
                            /\ app_events' = app_events
                                   \o [i \in DOMAIN port_list |->
                                          "kytos/of_core.switch.port.created"]
                            /\ UNCHANGED switch_description
                    ELSE IF handler = "description"
                    THEN /\ switch_description' = "description"
                         /\ UNCHANGED <<switch_interfaces, app_events>>
                    ELSE UNCHANGED <<switch_description, switch_interfaces, app_events>>
                 /\ UNCHANGED <<conn_vars, raw_vars, msg_in, in_handled, msg_out,
                                out_handled, switch_vars, multipart_vars, peer_vars,
                                nreq, hist_vars, thread_vars, call_vars>>

\* -------------------------------------------------------------------- Next
Next ==
    \/ handle_raw_in_begin
    \/ handle_raw_in_packet
    \/ handle_features_reply
    \/ handle_echo_request
    \/ handle_features_request_sent
    \/ handle_queued_openflow_echo_reply

Spec == Init /\ [][Next]_vars

\* handle_queued_openflow_echo_reply where the setting
\* SEND_FEATURES_REQUEST_ON_ECHO is True: send_features_request
echo_reply_sends_features_request ==
    /\ next_out # 0
    /\ msg_out[next_out].name = "ofpt_echo_reply"
    /\ out_handled' = next_out
    /\ msg_out' = Main_emit_message_out(msg_out, is_alive,
                      OutEvent("ofpt_features_request", proto_version, 0, ""))
    /\ UNCHANGED <<conn_vars, raw_vars, msg_in, in_handled, app_events,
                   switch_vars, multipart_vars, peer_vars, count_vars, hist_vars>>
    /\ UNCHANGED <<thread_vars, inventory_vars, call_vars>>

\* the handlers where every echo reply is followed by a features request,
\* with a peer that may repeat its hello
NextResend ==
    \/ handle_raw_in_begin_hello_again
    \/ handle_raw_in_packet
    \/ handle_features_reply
    \/ handle_echo_request
    \/ handle_features_request_sent
    \/ echo_reply_sends_features_request

SpecResend == Init /\ [][NextResend]_vars

\* every handler whose event is queued is run in the end and runs to its end;
\* nothing makes the peer send more bytes
Fairness ==
    /\ WF_vars(handle_raw_in_packet)
    /\ WF_vars(handle_features_reply)
    /\ WF_vars(handle_echo_request)
    /\ WF_vars(handle_features_request_sent)
    /\ WF_vars(handle_queued_openflow_echo_reply)

SpecFair == Init /\ [][Next]_vars /\ Fairness

\* the reassembler of a switch whose handshake is complete
NextMultipart ==
    \/ execute
    \/ handle_multipart_flow_stats

\* the connection once a version-4 hello and the features reply were handled
InitMultipart ==
    /\ conn_state = "ESTABLISHED"
    /\ socket = TRUE
    /\ proto_state = "handshake_complete"
    /\ proto_version = 4
    /\ remaining_data = <<>>
    /\ pc = "idle"
    /\ packets = <<>>
    /\ unprocessed = <<>>
    /\ msg_in = <<[name |-> "ofpt_features_reply", version |-> 4, xid |-> 2,
                    data |-> <<>>]>>
    /\ in_handled = 1
    /\ msg_out = <<OutEvent("ofpt_hello", 4, 0, ""),
                   OutEvent("ofpt_features_request", 4, 0, ""),
                   OutEvent("ofpt_multipart_request", 4, 0, "OFPMP_PORT_DESC"),
                   OutEvent("ofpt_multipart_request", 4, 0, "OFPMP_DESC"),
                   OutEvent("ofpt_set_config", 4, 0, "")>>
    /\ out_handled = 2
    /\ app_events = <<"kytos/core.switch.new">>
    /\ switch_created = TRUE
    /\ switch_connection = TRUE
    /\ switch_flows = <<>>
    /\ multipart_replies_xids = EmptyDict
    /\ multipart_replies_flows = EmptyDict
    /\ wire = <<>>
    /\ nsent = 2
    /\ nraw = 2
    /\ nreq = 0
    /\ nfrag = 0
    /\ hello_seen = [seen |-> TRUE, ok |-> TRUE, version |-> 4, xid |-> 1, versions |-> {}]
    /\ last_reply = NoReply
    /\ expected_flows = NoExpected
    /\ dropped = {}
    /\ InitThreads
    /\ InitInventory
    /\ InitNoCalls

SpecMultipart == InitMultipart /\ [][NextMultipart]_vars

\* the same switch, with multipart replies of every type
NextReply ==
    \/ execute
    \/ handle_multipart_reply

SpecReply == InitMultipart /\ [][NextReply]_vars

\* ------------------------------ handle_multipart_reply, statement by statement
\* Listeners run on a pool of threads, so two multipart replies of one switch
\* can be handled at once; each action below is one statement of
\* _handle_multipart_flow_stats, _is_multipart_reply_ours or
\* _update_switch_flows run by the thread t.
at(t, label) == handlers[t].pc = label
goto(t, label) == handlers' = [handlers EXCEPT ![t].pc = label]

\* what the threaded handlers leave alone
thread_frame ==
    UNCHANGED <<conn_vars, raw_vars, buffer_vars, switch_vars, multipart_replies_flows,
                peer_vars, nreq, hello_seen, last_reply, inventory_vars, call_vars>>

\* the event is given to an idle thread
handle_multipart_reply_start ==
    /\ nfrag < MaxFrag
    /\ nfrag' = nfrag + 1
    /\ \E t \in Threads, xid \in Xids, flags \in 0..1 :
          /\ at(t, "idle")
          /\ handlers' = [handlers EXCEPT ![t] =
                             [pc |-> "ours_in", xid |-> xid, flags |-> flags,
                              body |-> FragmentBody(nfrag + 1, 1), all_flows |-> 0]]
    /\ UNCHANGED <<heap, replies_flows_obj, switch_flows_obj, multipart_replies_xids,
                   expected_flows, dropped>>
    /\ thread_frame

\* if switch.id in self._multipart_replies_xids
is_multipart_reply_ours_in ==
    /\ \E t \in Threads :
          /\ at(t, "ours_in")
          /\ IF Dpid \in DOMAIN multipart_replies_xids
             THEN goto(t, "ours_read") /\ UNCHANGED dropped
             ELSE /\ goto(t, "idle")
                  /\ dropped' = dropped \cup {handlers[t].body[i] :
                                                 i \in DOMAIN handlers[t].body}
    /\ UNCHANGED <<heap, replies_flows_obj, switch_flows_obj, multipart_replies_xids,
                   expected_flows, nfrag>>
    /\ thread_frame

\* sent_xid = self._multipart_replies_xids[switch.id]; sent_xid == reply.header.xid
is_multipart_reply_ours_read ==
    /\ \E t \in Threads :
          /\ at(t, "ours_read")
          /\ IF Dpid \notin DOMAIN multipart_replies_xids
             THEN goto(t, "KeyError") /\ UNCHANGED <<expected_flows, dropped>>
             ELSE IF multipart_replies_xids[Dpid] = handlers[t].xid
             THEN /\ goto(t, "setdefault")
                  /\ expected_flows' = [expected_flows EXCEPT
                                           ![handlers[t].xid] = @ \o handlers[t].body]
                  /\ UNCHANGED dropped
             ELSE /\ goto(t, "idle")
                  /\ dropped' = dropped \cup {handlers[t].body[i] :
                                                 i \in DOMAIN handlers[t].body}
                  /\ UNCHANGED expected_flows
    /\ UNCHANGED <<heap, replies_flows_obj, switch_flows_obj, multipart_replies_xids,
                   nfrag>>
    /\ thread_frame

\* all_flows = self._multipart_replies_flows.setdefault(switch.id, [])
setdefault_flows ==
    /\ \E t \in Threads :
          /\ at(t, "setdefault")
          /\ IF Dpid \in DOMAIN replies_flows_obj
             THEN /\ handlers' = [handlers EXCEPT ![t].pc = "extend",
                                                  ![t].all_flows = replies_flows_obj[Dpid]]
                  /\ UNCHANGED <<heap, replies_flows_obj>>
             ELSE /\ heap' = Append(heap, <<>>)
                  /\ replies_flows_obj' = (Dpid :> Len(heap) + 1) @@ replies_flows_obj
                  /\ handlers' = [handlers EXCEPT ![t].pc = "extend",
                                                  ![t].all_flows = Len(heap) + 1]
    /\ UNCHANGED <<switch_flows_obj, multipart_replies_xids, expected_flows, dropped,
                   nfrag>>
    /\ thread_frame

\* all_flows.extend(flows); if reply.flags.value % 2 == 0
extend_flows ==
    /\ \E t \in Threads :
          /\ at(t, "extend")
          /\ heap' = [heap EXCEPT ![handlers[t].all_flows] = @ \o handlers[t].body]
          /\ goto(t, IF handlers[t].flags % 2 = 0 THEN "assign" ELSE "idle")
    /\ UNCHANGED <<replies_flows_obj, switch_flows_obj, multipart_replies_xids,
                   expected_flows, dropped, nfrag>>
    /\ thread_frame

\* switch.flows = self._multipart_replies_flows[switch.id]
update_switch_flows_assign ==
    /\ \E t \in Threads :
          /\ at(t, "assign")
          /\ IF Dpid \in DOMAIN replies_flows_obj
             THEN /\ switch_flows_obj' = replies_flows_obj[Dpid]
                  /\ goto(t, "del_flows")
             ELSE /\ goto(t, "KeyError")
                  /\ UNCHANGED switch_flows_obj
    /\ UNCHANGED <<heap, replies_flows_obj, multipart_replies_xids, expected_flows,
                   dropped, nfrag>>
    /\ thread_frame

\* del self._multipart_replies_flows[switch.id]
update_switch_flows_del_flows ==
    /\ \E t \in Threads :
          /\ at(t, "del_flows")
          /\ IF Dpid \in DOMAIN replies_flows_obj
             THEN /\ replies_flows_obj' = del(replies_flows_obj, Dpid)
                  /\ goto(t, "del_xids")
             ELSE /\ goto(t, "KeyError")
                  /\ UNCHANGED replies_flows_obj
    /\ UNCHANGED <<heap, switch_flows_obj, multipart_replies_xids, expected_flows,
                   dropped, nfrag>>
    /\ thread_frame

\* del self._multipart_replies_xids[switch.id]
update_switch_flows_del_xids ==
    /\ \E t \in Threads :
          /\ at(t, "del_xids")
          /\ IF Dpid \in DOMAIN multipart_replies_xids
             THEN /\ multipart_replies_xids' = del(multipart_replies_xids, Dpid)
                  /\ goto(t, "idle")
             ELSE /\ goto(t, "KeyError")
                  /\ UNCHANGED multipart_replies_xids
    /\ UNCHANGED <<heap, replies_flows_obj, switch_flows_obj, expected_flows, dropped,
                   nfrag>>
    /\ thread_frame

NextThreads ==
    \/ handle_multipart_reply_start
    \/ is_multipart_reply_ours_in
    \/ is_multipart_reply_ours_read
    \/ setdefault_flows
    \/ extend_flows
    \/ update_switch_flows_assign
    \/ update_switch_flows_del_flows
    \/ update_switch_flows_del_xids

\* the switch of InitMultipart after execute has requested its flows with xid 1
InitThreadsPending ==
    /\ conn_state = "ESTABLISHED"
    /\ socket = TRUE
    /\ proto_state = "handshake_complete"
    /\ proto_version = 4
    /\ remaining_data = <<>>
    /\ pc = "idle"
    /\ packets = <<>>
    /\ unprocessed = <<>>
    /\ msg_in = <<[name |-> "ofpt_features_reply", version |-> 4, xid |-> 2,
                    data |-> <<>>]>>
    /\ in_handled = 1
    /\ msg_out = <<OutEvent("ofpt_hello", 4, 0, ""),
                   OutEvent("ofpt_features_request", 4, 0, ""),
                   OutEvent("ofpt_multipart_request", 4, 0, "OFPMP_PORT_DESC"),
                   OutEvent("ofpt_multipart_request", 4, 0, "OFPMP_DESC"),
                   OutEvent("ofpt_set_config", 4, 0, ""),
                   OutEvent("ofpt_multipart_request", 4, 1, "OFPMP_FLOW"),
                   OutEvent("ofpt_echo_request", 4, 0, "")>>
    /\ out_handled = 2
    /\ app_events = <<"kytos/core.switch.new">>
    /\ switch_created = TRUE
    /\ switch_connection = TRUE
    /\ switch_flows = <<>>
    /\ multipart_replies_xids = (Dpid :> 1)
    /\ multipart_replies_flows = EmptyDict
    /\ wire = <<>>
    /\ nsent = 2
    /\ nraw = 2
    /\ nreq = 1
    /\ nfrag = 0
    /\ hello_seen = [seen |-> TRUE, ok |-> TRUE, version |-> 4, xid |-> 1, versions |-> {}]
    /\ last_reply = NoReply
    /\ expected_flows = NoExpected
    /\ dropped = {}
    /\ InitThreads
    /\ InitInventory
    /\ InitNoCalls

SpecThreads == InitThreadsPending /\ [][NextThreads]_vars

\* ------------------------------------------------ flows: comparison, rebuild
Switches == {[id |-> Dpid], [id |-> "dpid2"]}
Matches == {MatchBase(None, None), MatchBase(1, 0), MatchBase(2, None)}
StatsValues ==
    {FlowStats,
     [byte_count |-> 7, duration_sec |-> 5, duration_nsec |-> 6, packet_count |-> 0]}

\* the actions a flow of each version can hold
Actions(of_version) ==
    {ActionOutput(1), ActionSetVlan(6)}
    \cup (IF of_version = 4 THEN {ActionPushVlan("c"), ActionPopVlan} ELSE {})

ActionLists(of_version) ==
    UNION {[1..n -> Actions(of_version)] : n \in 0..MaxActions}

\* the flows drawn for flow_1
Flows ==
    UNION {{Flow(of_version, [id |-> Dpid], 1, match, 2, 3, 4, 5, actions, stats, 0) :
                match \in {MatchBase(None, None), MatchBase(1, 0)},
                actions \in ActionLists(of_version), stats \in StatsValues} :
           of_version \in OPENFLOW_VERSIONS}

\* the same flow, a flow differing from it in one attribute, or a flow of
\* the other version
Variations(flow) ==
    {flow, FlowDefault(5 - flow.of_version, flow.switch)}
    \cup {[flow EXCEPT !.stats = stats] : stats \in StatsValues}
    \cup {[flow EXCEPT !.switch = switch] : switch \in Switches}
    \cup {[flow EXCEPT !.table_id = table_id] : table_id \in {0, 1}}
    \cup {[flow EXCEPT !.match = match] : match \in Matches}
    \cup {[flow EXCEPT !.priority = priority] : priority \in {2, 1000}}
    \cup {[flow EXCEPT !.idle_timeout = idle_timeout] : idle_timeout \in {0, 3}}
    \cup {[flow EXCEPT !.hard_timeout = hard_timeout] : hard_timeout \in {0, 4}}
    \cup {[flow EXCEPT !.cookie = cookie] : cookie \in {0, 5}}
    \cup {[flow EXCEPT !.actions = actions] : actions \in ActionLists(flow.of_version)}
    \cup (IF flow.of_version = 4
          THEN {[flow EXCEPT !.cookie_mask = cookie_mask] : cookie_mask \in {0, 255}}
          ELSE {})

InitFlow ==
    /\ InitConnection
    /\ InitNoRegistry
    /\ InitNoStream
    /\ flow_1 \in Flows
    /\ flow_2 \in Variations(flow_1)
    /\ eq_result = "none"
    /\ ids = <<>>
    /\ rebuilt = [done |-> FALSE]
    /\ InitNoField
    /\ InitNoMatch
    /\ InitNoBuild

flow_frame ==
    UNCHANGED <<machine_vars, registry_vars, flow_1, flow_2, field_vars, match_vars, build_vars, stream_vars>>

\* flow_1 == flow_2, and the ids of both
compare_flows ==
    /\ eq_result = "none"
    /\ eq_result' = FlowBase_eq(flow_1, flow_2)
    /\ ids' = <<id(flow_1), id(flow_2)>>
    /\ UNCHANGED rebuilt
    /\ flow_frame

\* Flow.from_dict(flow_1.as_dict(), flow_1.switch)
rebuild_flow ==
    /\ ~rebuilt.done
    /\ LET flow == from_dict(flow_1.of_version, as_dict(flow_1, TRUE), flow_1.switch)
       IN rebuilt' = IF has_raised(flow)
                     THEN [done |-> TRUE, raised |-> flow.raised]
                     ELSE [done |-> TRUE, raised |-> "", flow |-> flow]
    /\ UNCHANGED <<eq_result, ids>>
    /\ flow_frame

NextFlow ==
    \/ compare_flows
    \/ rebuild_flow

SpecFlow == InitFlow /\ [][NextFlow]_vars

\* ----------------------------------------- match fields: to a TLV and back
MacAddress == HWText(<<17, 34, 51, 68, 85, 102>>, FALSE)
MacMasks ==
    {HWText(<<255, 255, 0, 0, 0, 0>>, FALSE), HWText(<<0, 0, 0, 0, 0, 0>>, FALSE),
     HWText(<<255, 255, 255, 255, 255, 255>>, FALSE), ALL_ONES_MAC}
IPv4Address == IPText(<<1, 2, 3, 4>>)
IPv6Address == IPText(<<32, 1, 13, 184, 0, 0, 0, 0, 0, 0, 0, 0, 0, 0, 0, 1>>)

\* the values drawn for a field of each class
FieldValues(cls) ==
    CASE cls.kind = "int" -> {IntValue(0), IntValue(42)}
      [] cls.kind = "vlan" ->
            {IntValue(0), IntValue(42), IntValue(4095)}
            \cup {MaskedInt(42, mask) : mask \in {0, 255, 4095}}
      [] cls.kind = "masked_int" ->
            {IntValue(0), IntValue(42)} \cup {MaskedInt(42, mask) : mask \in {0, 255}}
      [] cls.kind = "mac" ->
            {Text(MacAddress)} \cup {MaskedText(MacAddress, mask) : mask \in MacMasks}
      [] cls.kind = "ip" /\ cls.size = 32 ->
            {Text(IPv4Address)}
            \cup {PrefixedText(IPv4Address, netmask) : netmask \in {0, 8, 24, 31, 32}}
      [] cls.kind = "ip" /\ cls.size = 128 ->
            {Text(IPv6Address)}
            \cup {PrefixedText(IPv6Address, netmask) : netmask \in {0, 64, 127, 128}}

InitMatchField ==
    /\ InitConnection
    /\ InitNoRegistry
    /\ InitNoStream
    /\ InitNoFlows
    /\ match_field \in UNION {{MatchField(cls.name, value) : value \in FieldValues(cls)} :
                              cls \in MatchFieldClasses}
    /\ of_tlv = NoTLV
    /\ field_back = NoField
    /\ InitNoMatch
    /\ InitNoBuild

field_frame ==
    UNCHANGED <<machine_vars, registry_vars, flow_vars, match_vars, build_vars, stream_vars, match_field>>

\* match_field.as_of_tlv()
field_as_of_tlv ==
    /\ of_tlv = NoTLV
    /\ of_tlv' = as_of_tlv(match_field)
    /\ UNCHANGED field_back
    /\ field_frame

\* the class of match_field, from_of_tlv(of_tlv)
field_from_of_tlv ==
    /\ of_tlv # NoTLV
    /\ field_back = NoField
    /\ field_back' = from_of_tlv(MatchFieldFactory_get_class(match_field.name), of_tlv)
    /\ UNCHANGED of_tlv
    /\ field_frame

NextMatchField ==
    \/ field_as_of_tlv
    \/ field_from_of_tlv

SpecMatchField == InitMatchField /\ [][NextMatchField]_vars

\* ------------------------------------- address fields as a switch sends them
\* the masks a switch may send: every prefix, and one byte set among zeros
WireMasks(size) ==
    {mask_to_bytes(n, size) : n \in 0..size}
    \cup {[j \in 1..(size \div 8) |-> IF j = k THEN b ELSE 0] :
            k \in 1..(size \div 8), b \in {1, 255}}

\* the address of a flow of the switch, of the family of the class
WireAddress(cls) == IF cls.size = 32 THEN IPv4Address ELSE IPv6Address

InitWire ==
    /\ InitConnection
    /\ InitNoRegistry
    /\ InitNoStream
    /\ InitNoFlows
    /\ match_field \in {MatchField(cls.name, Text(WireAddress(cls))) :
                            cls \in {c \in MatchFieldClasses : c.kind = "ip"}}
    /\ of_tlv = NoTLV
    /\ field_back = NoField
    /\ InitNoMatch
    /\ InitNoBuild

\* the TLV of the field arrives in a flow-statistics entry, with a mask
tlv_received ==
    /\ of_tlv = NoTLV
    /\ \E mask \in WireMasks(MatchFieldFactory_get_class(match_field.name).size) :
          of_tlv' = OxmTLV(MatchFieldFactory_get_class(match_field.name).oxm_field, TRUE,
                           IPAddress_pack(match_field.value.str) \o mask)
    /\ UNCHANGED field_back
    /\ field_frame

NextWire ==
    \/ tlv_received
    \/ field_from_of_tlv

SpecWire == InitWire /\ [][NextWire]_vars

\* ------------------------- MatchFieldFactory._get_class on two threads
\* MatchField.__subclasses__(): the classes in the order of their definition
\* (the first of them)
SubclassNames == <<"dl_vlan", "dl_vlan_pcp", "dl_src", "dl_dst">>
MatchField_subclasses ==
    [i \in 1..MaxSubclasses |->
        CHOOSE c \in MatchFieldClasses : c.name = SubclassNames[i]]

\* the names and the wire identifiers of the classes
RegisteredKeys ==
    UNION {{MatchField_subclasses[i].name, MatchField_subclasses[i].oxm_field} :
           i \in 1..MaxSubclasses}

registry_frame == UNCHANGED <<machine_vars, flow_vars, field_vars, match_vars,
                              build_vars, stream_vars>>

\* a thread calls _get_class(name_or_field)
get_class_call ==
    \E t \in Threads, name_or_field \in RegisteredKeys :
        /\ lookups[t].pc = "idle"
        /\ lookups' = [lookups EXCEPT ![t] = [NoLookup EXCEPT !.pc = "if_not_classes",
                                                            !.name_or_field = name_or_field]]
        /\ UNCHANGED registry_classes
        /\ registry_frame

\* if not cls.__classes: the test alone
get_class_test ==
    \E t \in Threads :
        /\ lookups[t].pc = "if_not_classes"
        /\ lookups' = [lookups EXCEPT ![t].pc = IF DOMAIN registry_classes = {}
                                                THEN "index_name" ELSE "get",
                                      ![t].i = 1]
        /\ UNCHANGED registry_classes
        /\ registry_frame

\* _index_classes: cls.__classes[subclass.name] = subclass
index_classes_name ==
    \E t \in Threads :
        /\ lookups[t].pc = "index_name"
        /\ IF lookups[t].i > Len(MatchField_subclasses)
           THEN /\ lookups' = [lookups EXCEPT ![t].pc = "get"]
                /\ UNCHANGED registry_classes
           ELSE LET subclass == MatchField_subclasses[lookups[t].i]
                IN /\ registry_classes' = (subclass.name :> subclass.name) @@ registry_classes
                   /\ lookups' = [lookups EXCEPT ![t].pc = "index_oxm_field"]
        /\ registry_frame

\* _index_classes: cls.__classes[subclass.oxm_field] = subclass
index_classes_oxm_field ==
    \E t \in Threads :
        /\ lookups[t].pc = "index_oxm_field"
        /\ LET subclass == MatchField_subclasses[lookups[t].i]
           IN registry_classes' = (subclass.oxm_field :> subclass.name) @@ registry_classes
        /\ lookups' = [lookups EXCEPT ![t].pc = "index_name", ![t].i = @ + 1]
        /\ registry_frame

\* return cls.__classes.get(name_or_field)
get_class_return ==
    \E t \in Threads :
        /\ lookups[t].pc = "get"
        /\ lookups' = [lookups EXCEPT
                ![t].pc = "returned",
                ![t].result = IF lookups[t].name_or_field \in DOMAIN registry_classes
                              THEN registry_classes[lookups[t].name_or_field]
                              ELSE "None"]
        /\ UNCHANGED registry_classes
        /\ registry_frame

NextRegistry ==
    \/ get_class_call
    \/ get_class_test
    \/ index_classes_name
    \/ index_classes_oxm_field
    \/ get_class_return

SpecRegistry == Init /\ [][NextRegistry]_vars

\* --------------------------------------- Match: dictionary, object and TLVs
UNKNOWN_TLV == OxmTLV("OFPXMT_OFB_UNKNOWN", FALSE, <<1>>)

\* the dictionaries drawn: any subset of two match fields, with a key that
\* is no match field or without
MatchDicts ==
    UNION {[keys -> {0, 1, 42}] : keys \in SUBSET {"in_port", "dl_vlan", "cookie"}}

\* the attributes a user set on the object that are no match field
ForeignAttributes == {EmptyDict, [unknown_field |-> 7]}

InitMatch ==
    /\ InitConnection
    /\ InitNoRegistry
    /\ InitNoStream
    /\ InitNoFlows
    /\ InitNoField
    /\ InitNoBuild
    /\ match_pc = "new"
    /\ match_input \in [match_dict : MatchDicts, attributes : ForeignAttributes,
                        unknown_at : 0..2]
    /\ match_obj = MatchBase(None, None)
    /\ dict_back = EmptyDict
    /\ of_match = <<>>
    /\ match_back = MatchBase(None, None)

match_frame ==
    UNCHANGED <<machine_vars, registry_vars, flow_vars, field_vars, build_vars, stream_vars, match_input>>

\* the TLVs a peer sends: those of of_match, with a TLV of no class among
\* them at position unknown_at (0: none, 1: first, 2: last)
oxm_match_fields ==
    CASE match_input.unknown_at = 0 -> of_match
      [] match_input.unknown_at = 1 -> <<UNKNOWN_TLV>> \o of_match
      [] match_input.unknown_at = 2 -> of_match \o <<UNKNOWN_TLV>>

\* Match.from_dict(match_dict), and the attributes the user sets
match_from_dict ==
    /\ match_pc = "new"
    /\ match_obj' = MatchBase_from_dict(match_input.match_dict) @@ match_input.attributes
    /\ match_pc' = "built"
    /\ UNCHANGED <<dict_back, of_match, match_back>>
    /\ match_frame

\* match_obj.as_dict()
match_as_dict ==
    /\ match_pc = "built"
    /\ dict_back' = MatchBase_as_dict(match_obj)
    /\ match_pc' = "dumped"
    /\ UNCHANGED <<match_obj, of_match, match_back>>
    /\ match_frame

\* match_obj.as_of_match()
match_as_of_match ==
    /\ match_pc = "dumped"
    /\ of_match' = as_of_match(match_obj)
    /\ match_pc' = "packed"
    /\ UNCHANGED <<match_obj, dict_back, match_back>>
    /\ match_frame

\* Match.from_of_match of the TLVs received
match_from_of_match ==
    /\ match_pc = "packed"
    /\ match_back' = from_of_match(oxm_match_fields)
    /\ match_pc' = "unpacked"
    /\ UNCHANGED <<match_obj, dict_back, of_match>>
    /\ match_frame

NextMatch ==
    \/ match_from_dict
    \/ match_as_dict
    \/ match_as_of_match
    \/ match_from_of_match

SpecMatch == InitMatch /\ [][NextMatch]_vars

\* ------------------------------- flows built from dictionaries and replies
\* the dictionaries of the actions of a version, one of a type that is not
\* registered and one without a type
ActionDicts(of_version) ==
    {ActionBase_as_dict(action) : action \in Actions(of_version)}
    \cup {[action_type |-> "group", group_id |-> 1], [port |-> 1]}

\* the pyof actions of an entry; the last is of a class that is not registered
OFActions ==
    {OFActionOutput(1), OFActionSetField(OxmTLV("OFPXMT_OFB_VLAN_VID", FALSE, <<16, 6>>)),
     OFActionPush("VLAN_QINQ"), OFActionPopVLAN, OFActionGroup}

\* set-field actions on fields other than the VLAN id
OFActionsOtherField ==
    {OFActionSetField(OxmTLV("OFPXMT_OFB_VLAN_PCP", FALSE, <<3>>)),
     OFActionSetField(OxmTLV("OFPXMT_OFB_ETH_DST", FALSE, <<0, 0, 0, 0, 16, 6>>))}

\* the instructions of an entry, with actions among these
Instructions(of_actions) ==
    {[instruction_type |-> "OFPIT_GOTO_TABLE", table_id |-> UBInt(1)]}
    \cup {Instruction(instruction_type, actions) :
            instruction_type \in {"OFPIT_APPLY_ACTIONS", "OFPIT_WRITE_ACTIONS"},
            actions \in UNION {[1..n -> of_actions] : n \in 0..MaxActions}}

\* the counters of an entry
Counters ==
    [byte_count |-> 7, duration_sec |-> 5, duration_nsec |-> 6, packet_count |-> 0]

\* either action dictionaries of a version, or an entry of a reply
BuildInputs(of_versions) ==
    UNION {{[of_version |-> of_version, action_dicts |-> action_dicts,
             of_flow_stats |-> OFFlowStats(<<>>, Counters)] :
                action_dicts \in UNION {[1..n -> ActionDicts(of_version)] :
                                            n \in 1..MaxActions}} :
           of_version \in of_versions}
    \cup {[of_version |-> 4, action_dicts |-> <<>>,
           of_flow_stats |-> OFFlowStats(instructions, Counters)] :
            instructions \in UNION {[1..n -> Instructions(OFActions)] : n \in 0..2}}
    \cup {[of_version |-> 4, action_dicts |-> <<>>,
           of_flow_stats |->
                OFFlowStats(<<Instruction("OFPIT_APPLY_ACTIONS", <<of_action, OFActionOutput(1)>>)>>,
                            Counters)] :
            of_action \in OFActionsOtherField}

InitBuild ==
    /\ InitConnection
    /\ InitNoRegistry
    /\ InitNoStream
    /\ InitNoFlows
    /\ InitNoField
    /\ InitNoMatch
    /\ build_input \in BuildInputs(OPENFLOW_VERSIONS)
    /\ build_done = {}
    /\ actions_back = <<>>
    /\ flow_from_dict = FlowDefault(4, [id |-> Dpid])
    /\ flow_from_stats = FlowDefault(4, [id |-> Dpid])

build_frame ==
    UNCHANGED <<machine_vars, registry_vars, flow_vars, field_vars, match_vars, stream_vars, build_input>>

\* Action.from_dict of each of the dictionaries
actions_from_dict ==
    /\ "actions" \notin build_done
    /\ build_input.action_dicts # <<>>
    /\ actions_back' = [i \in 1..Len(build_input.action_dicts) |->
                           ActionFactoryBase_from_dict(build_input.of_version,
                                                       build_input.action_dicts[i])]
    /\ build_done' = build_done \cup {"actions"}
    /\ UNCHANGED <<flow_from_dict, flow_from_stats>>
    /\ build_frame

\* Flow.from_dict of a dictionary with these actions
build_from_dict ==
    /\ "dict" \notin build_done
    /\ build_input.action_dicts # <<>>
    /\ flow_from_dict' = from_dict(build_input.of_version,
                                   [priority |-> 2, actions |-> build_input.action_dicts],
                                   [id |-> Dpid])
    /\ build_done' = build_done \cup {"dict"}
    /\ UNCHANGED <<actions_back, flow_from_stats>>
    /\ build_frame

\* Flow.from_of_flow_stats of the entry
build_from_of_flow_stats ==
    /\ "stats" \notin build_done
    /\ build_input.action_dicts = <<>>
    /\ flow_from_stats' = from_of_flow_stats(build_input.of_version,
                                             build_input.of_flow_stats, [id |-> Dpid])
    /\ build_done' = build_done \cup {"stats"}
    /\ UNCHANGED <<actions_back, flow_from_dict>>
    /\ build_frame

NextBuild ==
    \/ actions_from_dict
    \/ build_from_dict
    \/ build_from_of_flow_stats

SpecBuild == InitBuild /\ [][NextBuild]_vars

\* ------------------------------------------ a byte stream cut into raw events
\* whole frames a peer sends: a hello, an echo request with one byte of body
StreamFrames ==
    {Header(4, OFPT_HELLO, HEADER_SIZE, 1),
     Header(4, OFPT_ECHO_REQUEST, HEADER_SIZE + 1, 2) \o <<7>>}

\* what follows the whole frames: nothing, part of a header, a header
\* without its body, a header whose length field is less than a header
StreamTails ==
    {<<>>, <<4>>, <<4, 0, 0>>, Header(4, OFPT_ECHO_REQUEST, HEADER_SIZE + 1, 2),
     Header(4, OFPT_HELLO, 4, 1)}

Streams ==
    {join(frames) \o tail :
        frames \in UNION {[1..n -> StreamFrames] : n \in 0..MaxStream},
        tail \in StreamTails}

InitStream ==
    /\ InitConnection
    /\ InitNoRegistry
    /\ InitNoFlows
    /\ InitNoField
    /\ InitNoMatch
    /\ InitNoBuild
    /\ stream_data \in Streams
    /\ stream_fed = 0
    /\ stream_rem = <<>>
    /\ stream_pkts = <<>>
    /\ stream_calls = 0
    /\ stream_carried = FALSE

\* the new bytes alone
raw_in_data_without_remainder(remainder, new_data) == new_data

\* handle_raw_in: the bytes handed to the slicer
raw_in_data(remainder, new_data) == remainder \o new_data

\* handle_raw_in up to the slicer: the next bytes of the stream arrive, cut
\* at any point, and are sliced after the remainder of the connection
raw_in_sliced ==
    /\ stream_fed < Len(stream_data)
    /\ \E cut \in (stream_fed + 1)..Len(stream_data) :
        LET new_data == SubSeq(stream_data, stream_fed + 1, cut)
            data == raw_in_data(stream_rem, new_data)
            sliced == of_slicer(data)
        IN /\ stream_fed' = cut
           /\ stream_rem' = sliced.rem
           /\ stream_pkts' = stream_pkts \o sliced.pkts
           /\ stream_calls' = stream_calls + 1
           /\ stream_carried' = (stream_carried
                                  \/ (stream_rem # <<>> /\ sliced.pkts # <<>>))
    /\ UNCHANGED <<machine_vars, registry_vars, flow_vars, field_vars, match_vars, build_vars, stream_data>>

NextStream ==
    \/ raw_in_sliced

SpecStream == InitStream /\ [][NextStream]_vars

\* ------------------------------------------------------------------ claims
\* the step gives a features-reply event to handle_features_reply
FeaturesReplyHandled ==
    /\ in_handled' # in_handled
    /\ msg_in[in_handled'].name = "ofpt_features_reply"

features_replies_handled ==
    Cardinality({i \in 1..in_handled : msg_in[i].name = "ofpt_features_reply"})

\* C1: the protocol state becomes 'handshake_complete', and the connection
\* ESTABLISHED, only in a step that handles a features reply on a connection
\* that is in SETUP with protocol state 'waiting_features_reply'; a features
\* reply handled in any other state changes neither.
C1_HandshakeOnlyWhenAwaited ==
    [][/\ ((proto_state' = "handshake_complete" /\ proto_state # "handshake_complete")
           \/ (conn_state' = "ESTABLISHED" /\ conn_state # "ESTABLISHED"))
          => /\ FeaturesReplyHandled
             /\ conn_state = "SETUP"
             /\ proto_state = "waiting_features_reply"
             /\ proto_state' = "handshake_complete"
             /\ conn_state' = "ESTABLISHED"
       /\ (FeaturesReplyHandled
           /\ ~(conn_state = "SETUP" /\ proto_state = "waiting_features_reply"))
          => /\ proto_state' = proto_state
             /\ conn_state' = conn_state]_vars

\* the handshake is complete and a second features reply was handled after it
C1_Witness ==
    /\ proto_state = "handshake_complete"
    /\ conn_state = "ESTABLISHED"
    /\ features_replies_handled >= 2

\* the step handles a flow-stats fragment
FragmentHandled == nfrag' # nfrag

stored_flows ==
    IF Dpid \in DOMAIN multipart_replies_flows
    THEN multipart_replies_flows[Dpid]
    ELSE <<>>

\* C2: when the fragment with the flag clear of the outstanding request X is
\* handled, the switch's flow list is the concatenation, in arrival order, of
\* the flows of the fragments with xid X accepted since the last finalization,
\* and the accumulator and the pending xid of the switch are gone.
C2_FinalizedListIsConcatenation ==
    [][(FragmentHandled /\ last_reply'.final)
          => /\ switch_flows' = expected_flows[last_reply'.xid] \o last_reply'.body
             /\ Dpid \notin DOMAIN multipart_replies_flows'
             /\ Dpid \notin DOMAIN multipart_replies_xids']_vars

\* C3: a flow-stats fragment whose xid is not the one recorded for the switch
\* (or that finds none recorded) leaves the accumulator, the pending xid and
\* the flow list as they are, and its flows are in no later accumulator or
\* flow list.
C3_StaleFragmentDropped ==
    /\ [][(FragmentHandled
           /\ (Dpid \notin DOMAIN multipart_replies_xids
               \/ multipart_replies_xids[Dpid] # last_reply'.xid))
             => /\ UNCHANGED <<multipart_replies_flows, multipart_replies_xids,
                               switch_flows>>
                /\ {last_reply'.body[i] : i \in DOMAIN last_reply'.body} \subseteq dropped'
                /\ ~last_reply'.ours]_vars
    /\ [](\A flow \in dropped :
              /\ \A i \in DOMAIN switch_flows : switch_flows[i] # flow
              /\ \A i \in DOMAIN stored_flows : stored_flows[i] # flow)

\* a fragment was dropped and a list was finalized after it
C3_Witness ==
    /\ last_reply.final
    /\ \E flow \in dropped : \E i \in DOMAIN switch_flows : flow < switch_flows[i]

\* the hello given to _negotiate carried the version bitmap
hello_with_bitmap == hello_seen.seen /\ hello_seen.ok /\ hello_seen.versions # {}
hello_header_only == hello_seen.seen /\ hello_seen.ok /\ hello_seen.versions = {}
negotiation_failed ==
    /\ proto_state = "hello_failed"
    /\ proto_version = None
    /\ conn_state = "FAILED"
    /\ ~socket
negotiation_succeeded(version) ==
    /\ proto_version = version
    /\ proto_state \in {"sending_features", "waiting_features_reply", "handshake_complete"}
    /\ conn_state # "FAILED"

\* C4: with a version bitmap in the hello, the negotiated version is the
\* highest version that is in the bitmap and supported (bitmap {1, 4} gives 4);
\* with no common version none is selected and the negotiation fails.
C4_BitmapSelectsHighestCommon ==
    hello_with_bitmap =>
        LET common == hello_seen.versions \cap OPENFLOW_VERSIONS
        IN  /\ common # {} =>
                /\ proto_version \in common
                /\ \A version \in common : version <= proto_version
                /\ negotiation_succeeded(proto_version)
            /\ common = {} => negotiation_failed
            /\ hello_seen.versions = {1, 4} => proto_version = 4

C4_Witness ==
    /\ hello_seen.seen
    /\ hello_seen.versions = {1, 4}
    /\ proto_version = 4

\* C5: with no version bitmap in the hello, the negotiated version is the
\* lower of the peer's header version and the highest supported version, if
\* that value is a supported version; otherwise the negotiation fails.
C5_HeaderSelectsLowerBound ==
    hello_header_only =>
        LET highest == CHOOSE v \in OPENFLOW_VERSIONS : \A w \in OPENFLOW_VERSIONS : w <= v
            lower == IF hello_seen.version < highest THEN hello_seen.version ELSE highest
        IN  IF lower \in OPENFLOW_VERSIONS
            THEN negotiation_succeeded(lower)
            ELSE negotiation_failed

\* a peer of version 5 was brought down to version 4
C5_Witness ==
    /\ hello_header_only
    /\ hello_seen.version = 5
    /\ proto_version = 4

\* the hello was parsed and no version is common to the peer and this side
no_common_version ==
    /\ hello_seen.seen
    /\ hello_seen.ok
    /\ IF hello_seen.versions # {}
       THEN hello_seen.versions \cap OPENFLOW_VERSIONS = {}
       ELSE \A version \in OPENFLOW_VERSIONS :
                \/ version > hello_seen.version
                \/ (version < hello_seen.version
                    /\ \E higher \in OPENFLOW_VERSIONS : higher > version)

\* C6: after a negotiation that found no common version, and ever after, the
\* protocol state is 'hello_failed', the one application event is
\* 'kytos/of_core.hello_failed', the one outbound message is the error of type
\* hello-failed, code incompatible, with the hello's xid (no hello reply, no
\* features request), the connection is closed and nothing was emitted inbound.
C6_NegotiationFailure ==
    no_common_version =>
        /\ proto_state = "hello_failed"
        /\ app_events = <<"kytos/of_core.hello_failed">>
        /\ msg_out = <<[name |-> "ofpt_error", version |-> 4, xid |-> hello_seen.xid,
                        kind |-> "OFPET_HELLO_FAILED/OFPHFC_INCOMPATIBLE",
                        data |-> <<>>]>>
        /\ ~socket
        /\ conn_state = "FAILED"
        /\ msg_in = <<>>

\* the negotiation failed on bitmap {9} and a later batch is being looked at
C6_Witness ==
    /\ hello_seen.seen
    /\ hello_seen.versions = {9}
    /\ proto_state = "hello_failed"
    /\ pc = "loop"

\* C7: once the protocol state is 'hello_failed', no step changes it or puts
\* an event on msg_in or msg_out.
C7_HelloFailedAbsorbing ==
    [][proto_state = "hello_failed"
          => /\ proto_state' = "hello_failed"
             /\ UNCHANGED <<msg_in, msg_out>>]_vars

\* further frames arrived on the failed connection and were looked at
C7_Witness ==
    /\ proto_state = "hello_failed"
    /\ pc = "idle"
    /\ nraw > 1
    /\ nsent > 2
    /\ wire = <<>>
    /\ remaining_data = <<>>

hello_v4 == hello_seen.seen /\ hello_seen.ok /\ hello_seen.version = 4
HelloV4Processed == ~hello_seen.seen /\ hello_seen'.seen /\ hello_seen'.ok
                    /\ hello_seen'.version = 4
FeaturesRequestSent ==
    /\ out_handled' # out_handled
    /\ msg_out[out_handled'].name = "ofpt_features_request"

\* the steps of the handshake of a version-4 hello up to the confirmation,
\* with the protocol state `sending` between the hello and the confirmation
HelloV4Steps(sending) ==
    /\ HelloV4Processed
          => /\ conn_state = "NEW"
             /\ proto_state = "none"
             /\ proto_state' = sending
             /\ msg_out = <<>>
             /\ msg_out' = <<[name |-> "ofpt_hello", version |-> 4, xid |-> 0, kind |-> "",
                              data |-> <<>>],
                             [name |-> "ofpt_features_request", version |-> 4,
                              xid |-> 0, kind |-> "", data |-> <<>>]>>
    /\ (hello_v4 /\ FeaturesRequestSent)
          => /\ proto_state = sending
             /\ proto_state' = "waiting_features_reply"
    /\ (hello_v4 /\ proto_state' # proto_state /\ proto_state = sending)
          => FeaturesRequestSent
    /\ (hello_v4 /\ msg_out' # msg_out)
          => /\ msg_out'[Len(msg_out')].name \notin {"ofpt_hello", "ofpt_features_request"}
             /\ SubSeq(msg_out', 1, Len(msg_out)) = msg_out

\* C8 as stated: new -> sending_hello -> waiting_features_reply
C8_Original == [][HelloV4Steps("sending_hello")]_vars

\* C8 amended: a version-4 hello on a new connection takes the protocol state
\* from unset to 'sending_features' and emits one hello then one features
\* request; the confirmation takes it to 'waiting_features_reply'; no other
\* hello or features request is emitted afterwards.
C8_HelloThenFeaturesRequest == [][HelloV4Steps("sending_features")]_vars

C8_Witness ==
    /\ hello_v4
    /\ proto_state = "waiting_features_reply"
    /\ out_handled = 2
    /\ Len(msg_out) = 2

\* the step looks at one packet of the batch
PacketLookedAt == pc = "loop" /\ (pc' # pc \/ packets' # packets)

\* C9: a packet looked at while the connection is NEW is given to the hello
\* negotiation and puts nothing on msg_in; a packet looked at while the
\* connection is in SETUP puts an event on msg_in only if it is a features
\* reply and the protocol state is 'waiting_features_reply'.
C9_OnlyHandshakeFramesAccepted ==
    [][/\ (PacketLookedAt /\ conn_state = "NEW")
          => /\ msg_in' = msg_in
             /\ hello_seen'.seen
             /\ hello_seen'.xid = Head(packets)[8]
       /\ (msg_in' # msg_in)
          => /\ PacketLookedAt
             /\ conn_state # "NEW"
             /\ msg_in' = Append(msg_in, [name |-> message_type_name(Head(packets)[2]),
                                          version |-> Head(packets)[1],
                                          xid |-> Head(packets)[8],
                                          data |-> SubSeq(Head(packets), HEADER_SIZE + 1,
                                                          Len(Head(packets)))])
             /\ conn_state = "SETUP"
                => /\ proto_state = "waiting_features_reply"
                   /\ Head(packets)[2] = OFPT_FEATURES_REPLY]_vars

\* the features reply went through during setup while another frame is kept
C9_Witness ==
    /\ conn_state = "SETUP"
    /\ Len(msg_in) = 1
    /\ msg_in[1].name = "ofpt_features_reply"
    /\ pc = "idle"
    /\ remaining_data # <<>>

complete_frames == nsent - (IF wire # <<>> THEN 1 ELSE 0)
kept_frames == of_slicer(remaining_data).pkts

\* between two raw-in events of a live connection every complete frame received
\* so far is the hello, or was emitted, or is kept in remaining_data in arrival
\* order ahead of the incomplete bytes
FramesRetained ==
    (pc = "idle" /\ is_alive)
       => /\ {msg_in[i].xid : i \in DOMAIN msg_in}
                \cup {kept_frames[i][8] : i \in DOMAIN kept_frames}
                \cup (IF hello_seen.seen THEN {hello_seen.xid} ELSE {})
             = 1..complete_frames
          /\ \A i, j \in DOMAIN kept_frames : i < j => kept_frames[i][8] < kept_frames[j][8]

\* C10: frames that arrive during setup and are not the awaited features
\* reply are kept in remaining_data, in arrival order, while the connection is
\* alive; and the message-in events other than the features reply are in the
\* order their frames arrived.
C10_BufferedFramesKeepOrder ==
    /\ FramesRetained
    /\ \A i, j \in DOMAIN msg_in :
          (i < j /\ msg_in[i].name # "ofpt_features_reply"
                 /\ msg_in[j].name # "ofpt_features_reply")
          => msg_in[i].xid < msg_in[j].xid

\* the requests for the switch description on msg_out
desc_requests ==
    {i \in DOMAIN msg_out : msg_out[i].kind \in {"OFPMP_DESC", "OFPST_DESC"}}
port_desc_requests == {i \in DOMAIN msg_out : msg_out[i].kind = "OFPMP_PORT_DESC"}
Established == conn_state # "ESTABLISHED" /\ conn_state' = "ESTABLISHED"

\* C11: whatever the handlers run, several features replies included, the
\* connection becomes established at most once (it never leaves ESTABLISHED
\* but to be closed, and a closed connection stays closed); the step that
\* establishes it handles a features reply awaited during setup and puts on
\* msg_out the description request of the negotiated version, after the
\* port-description request for version 4; no other step emits a description
\* request.
C11_EstablishedOnce ==
    [][/\ Established
          => /\ conn_state = "SETUP"
             /\ proto_state = "waiting_features_reply"
             /\ in_handled' # in_handled
             /\ msg_in[in_handled'].name = "ofpt_features_reply"
             /\ desc_requests = {}
             /\ msg_out' = msg_out
                   \o (IF proto_version = 4
                       THEN <<OutEvent("ofpt_multipart_request", 4, 0, "OFPMP_PORT_DESC"),
                              OutEvent("ofpt_multipart_request", 4, 0, "OFPMP_DESC")>>
                       ELSE <<OutEvent("ofpt_stats_request", proto_version, 0, "OFPST_DESC")>>)
                   \o (IF SEND_SET_CONFIG
                       THEN <<OutEvent("ofpt_set_config", proto_version, 0, "")>>
                       ELSE <<>>)
       /\ conn_state = "ESTABLISHED" => conn_state' \in {"ESTABLISHED", "FINISHED"}
       /\ conn_state \in {"FINISHED", "FAILED"} => conn_state' = conn_state
       /\ ~Established
             => {i \in DOMAIN msg_out' : msg_out'[i].kind \in {"OFPMP_DESC", "OFPST_DESC"}}
                = desc_requests]_vars

\* two features replies were handled on an established version-4 connection
C11_Witness ==
    /\ conn_state = "ESTABLISHED"
    /\ proto_version = 4
    /\ in_handled >= 2
    /\ msg_in[1].name = "ofpt_features_reply"
    /\ msg_in[2].name = "ofpt_features_reply"
    /\ Cardinality(desc_requests) = 1
    /\ Cardinality(port_desc_requests) = 2

\* the flows of the list bound to switch.flows
flows_of_switch == {heap[switch_flows_obj][i] : i \in DOMAIN heap[switch_flows_obj]}
accepted_flows ==
    UNION {{expected_flows[x][i] : i \in DOMAIN expected_flows[x]} : x \in Xids}
quiescent == \A t \in Threads : handlers[t].pc \in {"idle", "KeyError"}
finalized == Dpid \notin DOMAIN multipart_replies_xids

\* C12: with two threads handling multipart replies of one switch, statement
\* by statement: the list bound to switch.flows is never extended, no handler
\* raises KeyError on the accumulator or the xid entry, and once the request is
\* finalized and the handlers have returned every flow of an accepted
\* fragment is in switch.flows.
C12_FinalizationAtomic ==
    [][/\ switch_flows_obj' = switch_flows_obj
          => heap'[switch_flows_obj] = heap[switch_flows_obj]
       /\ \A t \in Threads : handlers'[t].pc # "KeyError"
       /\ (quiescent' /\ finalized')
          => accepted_flows' \subseteq flows_of_switch']_vars

\* the flow-stats requests put on msg_out
flow_requests == {i \in DOMAIN msg_out : msg_out[i].kind = "OFPMP_FLOW"}
FlowRequestIssued ==
    {i \in DOMAIN msg_out' : msg_out'[i].kind = "OFPMP_FLOW"} # flow_requests

\* C13: a flow-stats request is issued for the switch only when no earlier
\* request of that switch is pending, that is when the switch has no entry in
\* _multipart_replies_xids.
C13_OneOutstandingRequest ==
    [][FlowRequestIssued => Dpid \notin DOMAIN multipart_replies_xids]_vars

\* the flows accepted for a request other than the one with this xid
flows_of_other_requests(xid) ==
    UNION {{expected_flows[x][i] : i \in DOMAIN expected_flows[x]} : x \in Xids \ {xid}}

\* C14: the flow list finalized for a request holds no flow that was
\* accumulated from the fragments of an earlier request with another xid.
C14_AbandonedRequestCleared ==
    [][(FragmentHandled /\ last_reply'.final)
          => \A i \in DOMAIN switch_flows' :
                 switch_flows'[i] \notin flows_of_other_requests(last_reply'.xid)]_vars

\* the xids of the frames kept in remaining_data and of the events on msg_in
kept_xids == {kept_frames[i][8] : i \in DOMAIN kept_frames}
emitted_xids == {msg_in[i].xid : i \in DOMAIN msg_in}

\* the peer is free to send more bytes, or none
peer_may_send == nraw < MaxRaw /\ nsent < MaxFrames

\* C15: with every queued handler run in the end and no further bytes assumed
\* (the peer may send some or not), a frame that is still kept in
\* remaining_data once the connection is established is emitted as a
\* message-in event in the end, unless the connection dies.
C15_BufferedFramesReprocessed ==
    \A xid \in 1..MaxFrames :
        (is_established /\ is_alive /\ pc = "idle" /\ peer_may_send /\ xid \in kept_xids)
            ~> (xid \in emitted_xids \/ ~is_alive)

\* the packet looked at does not unpack: as a hello on a new connection, as a
\* message of the negotiated version afterwards
UnpackFails ==
    /\ PacketLookedAt
    /\ is_alive
    /\ IF is_new THEN ~GenericHello(Head(packets)).ok ELSE ~unpack(Head(packets)).ok

\* the connection is closed and the rest of the batch is given up
ClosedAndReturned ==
    /\ ~socket'
    /\ pc' = "idle"
    /\ packets' = <<>>
    /\ UNCHANGED <<msg_in, msg_out, remaining_data>>

EchoRequestHandled ==
    /\ in_handled' # in_handled
    /\ msg_in[in_handled'].name = "ofpt_echo_request"
echo_replies == {i \in DOMAIN msg_out : msg_out[i].name = "ofpt_echo_reply"}

\* C17: handling an echo request of a live connection puts exactly one echo
\* reply on msg_out, with the request's xid, the request's payload and the
\* negotiated version (nothing when the connection is closed); no other step
\* emits an echo reply; and the payload of every reply is, byte for byte, the
\* payload the peer sent with that xid.
C17_EchoReplied ==
    /\ [][/\ EchoRequestHandled
             => msg_out' = IF is_alive
                           THEN Append(msg_out,
                                    [name |-> "ofpt_echo_reply",
                                     version |-> proto_version,
                                     xid |-> msg_in[in_handled'].xid,
                                     kind |-> "",
                                     data |-> msg_in[in_handled'].data])
                           ELSE msg_out
          /\ ~EchoRequestHandled
             => {i \in DOMAIN msg_out' : msg_out'[i].name = "ofpt_echo_reply"}
                = echo_replies]_vars
    /\ [](\A i \in echo_replies :
              /\ msg_out[i].data = EchoPayload(msg_out[i].xid)
              /\ msg_out[i].version = proto_version
              /\ \A j \in echo_replies : msg_out[j].xid = msg_out[i].xid => j = i)

\* two echo requests were answered on a version-4 connection
C17_Witness ==
    /\ proto_version = 4
    /\ is_alive
    /\ Cardinality(echo_replies) = 2
    /\ \E i \in echo_replies : msg_out[i].data = EchoPayload(3)

\* the dictionary of a flow with its id and its statistics taken out
without_id_and_stats(flow) ==
    LET flow_dict == as_dict(flow, TRUE)
    IN [k \in DOMAIN flow_dict \ {"id", "stats"} |-> flow_dict[k]]

\* two flow objects of one variant with the same attributes, other than those named
same_attributes(a, b, other_than) ==
    /\ a.of_version = b.of_version
    /\ \A k \in DOMAIN a \ other_than : a[k] = b[k]

compared == eq_result # "none"

\* C18: two flows of the same variant are equal exactly when their
\* dictionaries without id and statistics are equal; flows with the same
\* attributes, or differing only in their statistics, are equal and have the
\* same id; flows differing only in priority are unequal and have different ids.
C18_FlowEquality ==
    (compared /\ flow_1.of_version = flow_2.of_version) =>
        /\ eq_result = "True"
           <=> without_id_and_stats(flow_1) = without_id_and_stats(flow_2)
        /\ same_attributes(flow_1, flow_2, {"stats"})
           => (eq_result = "True" /\ ids[1] = ids[2])
        /\ (same_attributes(flow_1, flow_2, {"priority"})
            /\ flow_1.priority # flow_2.priority)
           => (eq_result = "False" /\ ids[1] # ids[2])

C18_Witness ==
    /\ compared
    /\ same_attributes(flow_1, flow_2, {"priority"})
    /\ flow_1.priority # flow_2.priority
    /\ flow_1.actions # <<>>
    /\ eq_result = "False"
    /\ ids[1] # ids[2]

\* the attributes of a flow other than its statistics
IdentityFields(flow) == DOMAIN flow \ {"of_version", "stats"}

\* C19: two flows of the same variant that differ in any one of switch id,
\* table id, match, priority, idle timeout, hard timeout, cookie, cookie-mask
\* or the ordered action list have different dictionaries without id, are
\* unequal and do not share an id.
C19_IdCoversEveryField ==
    compared =>
        \A field \in IdentityFields(flow_1) :
            (same_attributes(flow_1, flow_2, {field}) /\ flow_1[field] # flow_2[field])
                => /\ as_dict(flow_1, FALSE) # as_dict(flow_2, FALSE)
                   /\ eq_result = "False"
                   /\ ids[1] # ids[2]

\* C20: for every flow v of either variant, from_dict(as_dict(v,
\* include_id=True), switch) returns a flow whose id is v.id and whose
\* dictionary is v's dictionary.
C20_RoundTrip ==
    rebuilt.done =>
        /\ rebuilt.raised = ""
        /\ id(rebuilt.flow) = id(flow_1)
        /\ as_dict(rebuilt.flow, TRUE) = as_dict(flow_1, TRUE)

\* the prefix length or mask of a value is the whole address
all_ones_mask(field) ==
    LET cls == MatchFieldFactory_get_class(field.name)
    IN /\ has_slash(field.value)
       /\ \/ cls.kind = "mac" /\ field.value.mask.hex = ALL_ONES_MAC.hex
          \/ cls.kind = "ip" /\ field.value.netmask = cls.size

decoded == field_back # NoField

C22_AllOnesMaskElided ==
    all_ones_mask(match_field) =>
        /\ of_tlv # NoTLV
           => /\ ~of_tlv.oxm_hasmask
              /\ Len(of_tlv.oxm_value)
                 = (IF MatchFieldFactory_get_class(match_field.name).kind = "mac" THEN 6
                    ELSE MatchFieldFactory_get_class(match_field.name).size \div 8)
        /\ decoded
           => /\ ~has_raised(field_back)
              /\ field_back.value = Text(match_field.value.str)

C22_Witness ==
    /\ decoded
    /\ match_field = MatchField("dl_src", MaskedText(MacAddress, ALL_ONES_MAC))
    /\ ~of_tlv.oxm_hasmask
    /\ field_back.value = Text(MacAddress)

\* the match fields of an object that are set, in the order of its attributes
set_fields(match) ==
    SelectSeq(MatchAttrOrder,
              LAMBDA name : /\ name \in DOMAIN MatchBase(None, None)
                            /\ match[name] # None)

\* the field names of a list of TLVs
names_of(tlvs) ==
    [i \in 1..Len(tlvs) |-> MatchFieldFactory_get_class(tlvs[i].oxm_field).name]

\* C23: a TLV with an unregistered wire type and a match attribute with an
\* unregistered name both give no field: the element is skipped without an
\* error and every other field of the match is still converted.
C23_UnknownFieldSkipped ==
    /\ match_pc \in {"packed", "unpacked"}
       => names_of(of_match) = set_fields(match_obj)
    /\ match_pc = "unpacked"
       => /\ ~has_raised(match_back)
          /\ DOMAIN match_back = DOMAIN MatchBase(None, None)
          /\ \A name \in DOMAIN match_back : match_back[name] = match_obj[name]

C23_Witness ==
    /\ match_pc = "unpacked"
    /\ match_input.unknown_at = 1
    /\ "unknown_field" \in DOMAIN match_obj
    /\ match_obj.in_port = 1
    /\ match_obj.dl_vlan = 42
    /\ Len(of_match) = 2
    /\ match_back = MatchBase(1, 42)

\* the keys of a dictionary that are match fields
field_items(match_dict) ==
    [k \in DOMAIN match_dict \cap DOMAIN MatchBase(None, None) |-> match_dict[k]]

\* C26: a match's dictionary holds exactly its non-null fields (a field set
\* to 0 is present), an unset field is in neither the dictionary nor the
\* TLV list, Match.from_dict(d).as_dict() is d for every subset of fields,
\* and dictionary keys that are no match fields are ignored.
C26_MatchDictionary ==
    /\ match_pc \in {"dumped", "packed", "unpacked"}
       => /\ DOMAIN dict_back = {k \in DOMAIN match_obj : match_obj[k] # None}
          /\ \A k \in DOMAIN dict_back : dict_back[k] = match_obj[k]
          /\ match_input.attributes = EmptyDict
             => dict_back = field_items(match_input.match_dict)
    /\ match_pc \in {"packed", "unpacked"}
       => \A name \in DOMAIN MatchBase(None, None) :
              (name \in DOMAIN dict_back)
              <=> (\E i \in 1..Len(of_match) : names_of(of_match)[i] = name)

C26_Witness ==
    /\ match_pc = "packed"
    /\ match_input.match_dict = [in_port |-> 0, cookie |-> 42]
    /\ match_input.attributes = EmptyDict
    /\ dict_back = [in_port |-> 0]
    /\ names_of(of_match) = <<"in_port">>

\* the dictionaries of the action variants of a version
variant_dicts(of_version) ==
    {ActionBase_as_dict(action) : action \in Actions(of_version)}

\* the action type of a dictionary is registered in the version
recognized(of_version, action_dict) ==
    /\ "action_type" \in DOMAIN action_dict
    /\ action_dict.action_type \in action_class(of_version)

\* C24: building a flow never aborts on an action of unrecognized type: from
\* action dictionaries (none of them pop_vlan, whose failure is another
\* matter) the flow holds the recognized ones in their order, and from a
\* statistics entry it holds the registered wire actions of the apply-actions
\* instructions in their order.
C24_UnrecognizedActionSkipped ==
    /\ ("dict" \in build_done
        /\ \A i \in 1..Len(build_input.action_dicts) :
                build_input.action_dicts[i] # ActionBase_as_dict(ActionPopVlan))
       => /\ ~has_raised(flow_from_dict)
          /\ flow_from_dict.actions =
                SelectSeq(build_input.action_dicts,
                          LAMBDA d : recognized(build_input.of_version, d))
    /\ "stats" \in build_done
       => LET kept == SelectSeq(get_of_actions(build_input.of_flow_stats),
                                LAMBDA a : a.of_class \in DOMAIN of_action_class)
          IN /\ ~has_raised(flow_from_stats)
             /\ Len(flow_from_stats.actions) = Len(kept)
             /\ \A i \in 1..Len(kept) :
                    flow_from_stats.actions[i].action_type = of_action_class[kept[i].of_class]

\* C25: for every action variant of a version, the dictionary has the key
\* 'action_type', and Action.from_dict of it returns an action whose
\* dictionary is the same.
C25_ActionRoundTrip ==
    "actions" \in build_done =>
        \A i \in 1..Len(actions_back) :
            build_input.action_dicts[i] \in variant_dicts(build_input.of_version) =>
                /\ "action_type" \in DOMAIN build_input.action_dicts[i]
                /\ ~has_raised(actions_back[i])
                /\ ActionBase_as_dict(actions_back[i]) = build_input.action_dicts[i]

RECURSIVE apply_actions(_)
\* the actions of the apply-actions instructions, instruction by instruction
apply_actions(instructions) ==
    IF instructions = <<>> THEN <<>>
    ELSE LET ins == Head(instructions)
         IN (IF ins.instruction_type = "OFPIT_APPLY_ACTIONS" THEN ins.actions ELSE <<>>)
            \o apply_actions(Tail(instructions))

\* the flow action that a registered wire action of the entries stands for
standing_for(of_action) ==
    CASE of_action.of_class = "OFActionOutput" -> ActionOutput(1)
      [] of_action.of_class = "OFActionSetField" ->
            ActionSetVlan(from_bytes(of_action.field.oxm_value) % 4096)
      [] of_action.of_class = "OFActionPush" -> ActionPushVlan("s")
      [] of_action.of_class = "OFActionPopVLAN" -> ActionPopVlan

\* C27: a version-4 flow built from a flow-statistics entry has, as actions,
\* the registered actions of the entry's apply-actions instructions in
\* instruction order and then action order, and none of any other
\* instruction; its statistics are the entry's byte count, packet count and
\* duration; its match is built from the entry's match fields.
C27_FlowFromStatistics ==
    "stats" \in build_done =>
        LET entry == build_input.of_flow_stats
            kept == SelectSeq(apply_actions(entry.instructions),
                              LAMBDA a : a.of_class # "OFActionGroup")
        IN /\ flow_from_stats.actions = [i \in 1..Len(kept) |-> standing_for(kept[i])]
           /\ flow_from_stats.stats =
                [byte_count |-> entry.byte_count.value,
                 duration_sec |-> entry.duration_sec.value,
                 duration_nsec |-> entry.duration_nsec.value,
                 packet_count |-> entry.packet_count.value]
           /\ flow_from_stats.stats.byte_count = 7
           /\ flow_from_stats.stats.duration_sec = 5
           /\ flow_from_stats.match = MatchBase(1, 42)
           /\ flow_from_stats.of_version = 4

\* a flow was built from an entry whose first instruction writes actions and
\* whose second applies two, and it has the two
C27_Witness ==
    /\ "stats" \in build_done
    /\ Len(build_input.of_flow_stats.instructions) = 2
    /\ build_input.of_flow_stats.instructions[1].instruction_type = "OFPIT_WRITE_ACTIONS"
    /\ build_input.of_flow_stats.instructions[1].actions = <<OFActionOutput(1)>>
    /\ build_input.of_flow_stats.instructions[2].instruction_type = "OFPIT_APPLY_ACTIONS"
    /\ build_input.of_flow_stats.instructions[2].actions = <<OFActionPopVLAN, OFActionOutput(1)>>
    /\ flow_from_stats.actions = <<ActionPopVlan, ActionOutput(1)>>

features_requests_sent ==
    Cardinality({i \in 1..out_handled : msg_out[i].name = "ofpt_features_request"})

\* C29: the step that handles a features-request-sent confirmation takes the
\* protocol state from 'sending_features' to 'waiting_features_reply' and
\* leaves any other protocol state as it is; it changes nothing else of the
\* connection.
C29_FeaturesRequestSent ==
    [][FeaturesRequestSent
          => /\ proto_state = "sending_features" => proto_state' = "waiting_features_reply"
             /\ proto_state # "sending_features" => proto_state' = proto_state
             /\ UNCHANGED <<conn_state, socket, proto_version, msg_in, msg_out>>]_vars

\* a features request sent again on the established connection has been
\* confirmed, after the one of the negotiation
C29_Witness ==
    /\ features_requests_sent = 2
    /\ msg_out[out_handled].name = "ofpt_features_request"
    /\ proto_state = "handshake_complete"
    /\ conn_state = "ESTABLISHED"

\* the order of the protocol states of a connection
state_rank ==
    [none |-> 0, sending_features |-> 1, waiting_features_reply |-> 2,
     handshake_complete |-> 3, hello_failed |-> 3]

\* the hellos sent by the controller: one per negotiation
hellos_sent ==
    Cardinality({i \in 1..Len(msg_out) : msg_out[i].name = "ofpt_hello"})

\* the step emits the features request of a negotiation, after its hello
Negotiated ==
    /\ Len(msg_out') = Len(msg_out) + 2
    /\ msg_out'[Len(msg_out) + 1].name = "ofpt_hello"
    /\ msg_out'[Len(msg_out) + 2].name = "ofpt_features_request"

\* C30: no step takes the protocol state backwards, and none takes it out of
\* 'handshake_complete', whatever raw bytes, hellos, features replies, echo
\* events and features-request-sent confirmations follow; a hello is sent
\* only in a negotiation, on a new connection that the step takes out of the
\* new state, so that there is at most one negotiation.
C30_StateOnlyForward ==
    [][/\ state_rank[proto_state'] >= state_rank[proto_state]
       /\ proto_state = "handshake_complete" => proto_state' = "handshake_complete"
       /\ hellos_sent' # hellos_sent
            => /\ Negotiated
               /\ conn_state = "NEW"
               /\ conn_state' # "NEW"
               /\ hellos_sent = 0
               /\ hellos_sent' = 1]_vars

\* on a connection whose handshake is complete, a second features reply
\* has been handled, a features request sent again has been confirmed and
\* the peer's second hello has been received
C30_Witness ==
    /\ proto_state = "handshake_complete"
    /\ hellos_sent = 1
    /\ features_replies_handled >= 2
    /\ features_requests_sent = 2
    /\ \E i \in 1..Len(msg_in) : msg_in[i].name = "ofpt_hello"

\* a features reply received during setup is kept in remaining_data
features_reply_kept ==
    \E i \in DOMAIN kept_frames : kept_frames[i][2] = OFPT_FEATURES_REPLY

\* C31: once the negotiation has succeeded and the features reply of the
\* switch has arrived, the protocol state becomes 'handshake_complete' in the
\* end, with every queued handler run in the end and no further bytes assumed
\* (the peer may send some or not), also when the reply was received before
\* the features-request-sent confirmation was handled; unless the connection
\* dies.
C31_HandshakeCompletes ==
    (is_during_setup /\ is_alive /\ pc = "idle" /\ peer_may_send /\ features_reply_kept)
        ~> (proto_state = "handshake_complete" \/ ~is_alive)

\* C32: a step that handles a features reply while the handshake is not
\* awaiting one (the connection is not in setup, or the protocol state is not
\* 'waiting_features_reply') emits no message-out event and changes nothing
\* of the connection, of its protocol or of the switch.
C32_StrayFeaturesReplyIgnored ==
    [][(FeaturesReplyHandled /\ ~awaiting_features_reply)
          => UNCHANGED <<msg_out, conn_vars, switch_vars>>]_vars

\* the xids of the flow-stats requests put on msg_out
flow_request_xids == {msg_out[i].xid : i \in flow_requests}

\* C33: a fragment handled while the switch has no pending-xid entry, as
\* after the finalization of its request and before any new request (the
\* fragment may carry the finalized xid), is dropped: the switch's flow list
\* and both dictionaries stay as they are, so no accumulator or pending-xid
\* entry is re-created.
C33_LateFragmentDropped ==
    [][(FragmentHandled /\ finalized)
          => /\ UNCHANGED <<switch_flows, multipart_vars>>
             /\ ~last_reply'.ours
             /\ Dpid \notin DOMAIN multipart_replies_flows']_vars

\* one request was issued and finalized, and the next fragment carried its xid
C33_Witness ==
    /\ finalized
    /\ Dpid \notin DOMAIN multipart_replies_flows
    /\ Cardinality(flow_requests) = 1
    /\ flow_request_xids = {last_reply.xid}
    /\ ~last_reply.ours
    /\ nfrag >= 2
    /\ switch_flows # <<>>
    /\ switch_flows[Len(switch_flows)] \in {10 * (nfrag - 1) + 1, 10 * (nfrag - 1) + 2}

\* C34: with the handlers run one after the other, the switch has an entry in
\* _multipart_replies_flows only if it has one in _multipart_replies_xids, and
\* the step that finalizes a request finds both entries and deletes both.
C34_AccumulatorOnlyWhilePending ==
    [][/\ Dpid \in DOMAIN multipart_replies_flows'
          => Dpid \in DOMAIN multipart_replies_xids'
       /\ (FragmentHandled /\ last_reply'.final)
          => /\ Dpid \in DOMAIN multipart_replies_xids
             /\ Dpid \notin DOMAIN multipart_replies_xids'
             /\ Dpid \notin DOMAIN multipart_replies_flows']_vars

\* a request was finalized and the fragments of a later one are being
\* accumulated
C34_Witness ==
    /\ Dpid \in DOMAIN multipart_replies_flows
    /\ Dpid \in DOMAIN multipart_replies_xids
    /\ switch_flows # <<>>
    /\ last_reply.ours
    /\ ~last_reply.final

\* C35: a step that handles a multipart reply of type OFPMP_DESC or
\* OFPMP_PORT_DESC, whatever its xid and its flags, leaves the switch's
\* pending-xid entry, its accumulator and its flow list unchanged.
C35_DescReplyLeavesFlows ==
    [][(/\ FragmentHandled
        /\ last_multipart'.multipart_type \in {"OFPMP_DESC", "OFPMP_PORT_DESC"})
          => UNCHANGED <<switch_flows, multipart_vars>>]_vars

\* a port-description reply with the pending xid and the last-fragment flags
\* was handled while fragments of the request were accumulated
C35_Witness ==
    /\ last_multipart.multipart_type = "OFPMP_PORT_DESC"
    /\ last_multipart.flags = 0
    /\ Dpid \in DOMAIN multipart_replies_xids
    /\ multipart_replies_xids[Dpid] = last_multipart.xid
    /\ Dpid \in DOMAIN multipart_replies_flows
    /\ DOMAIN switch_interfaces = {1, 2}
    /\ switch_description = "description"

\* C36: a step taken while the connection is not alive puts no event on
\* msg_in or msg_out through Main.emit_message_in / Main.emit_message_out
\* (every emission of the handlers but those of the features-reply listener,
\* which calls utils.emit_message_out itself); a turn of handle_raw_in's loop
\* that finds the connection not alive returns without looking at the frame,
\* and a turn that leaves it not alive is the last of its batch.
C36_NothingEmittedWhenNotAlive ==
    [][/\ (~is_alive /\ ~FeaturesReplyHandled) => UNCHANGED <<msg_in, msg_out>>
       /\ (PacketLookedAt /\ ~is_alive)
          => /\ pc' = "idle"
             /\ packets' = <<>>
             /\ UNCHANGED <<conn_vars, buffer_vars, hello_seen>>
       /\ (PacketLookedAt /\ ~is_alive') => pc' = "idle"]_vars

\* on a closed connection, an echo request emitted earlier was handled
\* without a reply, and a later batch was dropped at its first frame
C36_Witness ==
    /\ ~is_alive
    /\ conn_state = "FINISHED"
    /\ in_handled > 0
    /\ msg_in[in_handled].name = "ofpt_echo_request"
    /\ echo_replies = {}
    /\ pc = "idle"
    /\ nraw > 2
    /\ wire = <<>>

\* a wire action that sets the VLAN id
sets_vlan_id(of_action) ==
    /\ of_action.of_class = "OFActionSetField"
    /\ of_action.field.oxm_field = "OFPXMT_OFB_VLAN_VID"

\* C37: the set_vlan actions of a flow built from a statistics entry are, in
\* order, those of the applied set-field actions whose field is the VLAN id,
\* each with the 12 low bits of the field's value; a set-field action on
\* another field gives no set_vlan action.
C37_SetVlanOnlyFromVlanId ==
    "stats" \in build_done =>
        LET vlan_fields == SelectSeq(get_of_actions(build_input.of_flow_stats), sets_vlan_id)
        IN SelectSeq(flow_from_stats.actions, LAMBDA a : a.action_type = "set_vlan")
           = [i \in 1..Len(vlan_fields) |->
                ActionSetVlan(from_bytes(vlan_fields[i].field.oxm_value) % 4096)]

\* the class of the field being encoded
match_field_class == MatchFieldFactory_get_class(match_field.name)

\* C38: the TLV of a maskable integer field (the VLAN id and the integer
\* fields that take 'value/mask') has oxm_hasmask set exactly when its value
\* carries mask bytes: the value is twice the field's width long with the
\* flag and of the field's width without, a mask of 0 included.
C38_HasMaskIffMaskBytes ==
    (of_tlv # NoTLV /\ match_field_class.kind \in {"vlan", "masked_int"})
        => Len(of_tlv.oxm_value) = IF of_tlv.oxm_hasmask
                                   THEN 2 * match_field_class.size
                                   ELSE match_field_class.size

\* the number of leading one bits of the mask, as a string of all its bits
leading_ones(tobytes) ==
    LET bit(i) == (tobytes[((i - 1) \div 8) + 1] \div (2 ^ (7 - ((i - 1) % 8)))) % 2
        prefixes == {n \in 0..(8 * Len(tobytes)) : \A i \in 1..n : bit(i) = 1}
    IN CHOOSE n \in prefixes : \A m \in prefixes : m <= n

\* C39: decoding the TLV of an IPv4 or IPv6 address field with a mask raises
\* nothing, whatever the mask, and the prefix length decoded is the number of
\* leading one bits of the mask (0 when its first bit is 0), so that the
\* mask of mask_to_bytes(n, size) is decoded as n.
C39_PrefixLengthOfAnyMask ==
    (field_back # NoField /\ match_field_class.kind = "ip" /\ of_tlv.oxm_hasmask)
        => LET width == match_field_class.size \div 8
               tobytes == SubSeq(of_tlv.oxm_value, width + 1, 2 * width)
           IN /\ ~has_raised(field_back)
              /\ field_back.value.netmask = leading_ones(tobytes)
              /\ \A n \in 0..match_field_class.size :
                    tobytes = mask_to_bytes(n, match_field_class.size)
                        => field_back.value.netmask = n

\* C40: on two threads that both call _get_class at first use, statement by
\* statement, a lookup of a registered name or wire identifier that has
\* returned gave the class registered under it, never None.
C40_RegistrySafeAtFirstUse ==
    \A t \in Threads :
        lookups[t].pc = "returned"
            => /\ lookups[t].result # "None"
               /\ lookups[t].result \in {SubclassNames[i] : i \in 1..MaxSubclasses}
====
